---- MODULE Spec2Model ----
(***************************************************************************)
(* Colour-difference formulas of the empfindung crate (CIE76, CIE94, CMC   *)
(* l:c, CIEDE2000) over IEEE-754 binary32 (Rust f32) arithmetic.           *)
(*                                                                         *)
(* A binary32 value is a record [cls, s, m, e]:                            *)
(*   cls = "fin": the value (-1)^s * m * 2^e, with either                  *)
(*                2^23 <= m < 2^24 and EMin <= e <= EMax   (normal), or    *)
(*                m < 2^23 and e = EMin          (subnormal, zero if m = 0)*)
(*   cls = "inf": the infinity of sign s;   cls = "nan": a NaN.            *)
(* Every arithmetic operator rounds to nearest, ties to even, as the       *)
(* hardware does for +, -, *, / and sqrt.                                  *)
(***************************************************************************)
EXTENDS Integers, Sequences, FiniteSets, TLC

\* ------------------------------------------------------------ binary32

\* f32: 24 significant bits (23 stored), exponents of the integer
\* significand from -149 (least subnormal 2^-149) to 104 (greatest finite
\* value (2^24 - 1) * 2^104).
MantBits == 24
EMin == -149
EMax == 104

Pow2Tab ==
  << 1, 2, 4, 8, 16, 32, 64, 128, 256, 512, 1024, 2048, 4096, 8192, 16384,
     32768, 65536, 131072, 262144, 524288, 1048576, 2097152, 4194304,
     8388608, 16777216, 33554432, 67108864, 134217728, 268435456,
     536870912, 1073741824 >>

Pow2(n) == Pow2Tab[n + 1]

Pow10Tab == << 1, 10, 100, 1000, 10000, 100000, 1000000, 10000000 >>

Pow10(n) == Pow10Tab[n + 1]

BitLenTab == << 0, 1, 2, 2, 3, 3, 3, 3, 4, 4, 4, 4, 4, 4, 4, 4 >>

BitLen8(n) == IF n < 16 THEN BitLenTab[n + 1] ELSE 4 + BitLenTab[(n \div 16) + 1]

\* Number of significant bits of n, 0 <= n < 2^31.
BitLen(n) ==
  IF n < 65536
    THEN IF n < 256 THEN BitLen8(n) ELSE 8 + BitLen8(n \div 256)
    ELSE IF n < 16777216 THEN 16 + BitLen8(n \div 65536)
                         ELSE 24 + BitLen8(n \div 16777216)

Fin(s, m, e) == [cls |-> "fin", s |-> s, m |-> m, e |-> e]
Inf(s) == [cls |-> "inf", s |-> s, m |-> 0, e |-> 0]
NaN == [cls |-> "nan", s |-> 0, m |-> 0, e |-> 0]
Zero(s) == Fin(s, 0, EMin)

IsNaN(x) == x.cls = "nan"
IsInf(x) == x.cls = "inf"
IsFinite(x) == x.cls = "fin"
IsZero(x) == x.cls = "fin" /\ x.m = 0

\* Every arithmetic operation is applied through Call, which is defined
\* at the end of the arithmetic, once all of them are: its argument is the
\* operation's name followed by the operands.
RECURSIVE Call(_)
RoundPack(s, M, e, st) == Call(<< "round_pack", s, M, e, st >>)
FAdd(x, y) == Call(<< "f32_add", x, y >>)
FSub(x, y) == Call(<< "f32_sub", x, y >>)
FMul(x, y) == Call(<< "f32_mul", x, y >>)
FDiv(x, y) == Call(<< "f32_div", x, y >>)
FSqrt(x) == Call(<< "f32_sqrt", x >>)
FromInt(n) == Call(<< "f32_from_int", n >>)
Dec(n, k) == Call(<< "f32_literal", n, k >>)
FScalb(x, n) == Call(<< "f32_scalb", x, n >>)
FSin(x) == Call(<< "f32_sin", x >>)
FCos(x) == Call(<< "f32_cos", x >>)
FExp(x) == Call(<< "f32_exp", x >>)
FAtan2(y, x) == Call(<< "f32_atan2", y, x >>)
FPowi(x, n) == Call(<< "f32_powi", x, n >>)

\* The operations of a function body happen in the order they are written:
\* steps lists the intermediate values in that order, value is the result.
InOrder(steps, value) == IF Len(steps) >= 0 THEN value ELSE NaN

\* The significand m1 (at most 2^24, after rounding) and exponent e as f32.
Pack(s, m1, e) ==
  IF m1 = 0 THEN Zero(s)
  ELSE IF m1 = Pow2(MantBits)
    THEN (IF e + 1 > EMax THEN Inf(s) ELSE Fin(s, Pow2(MantBits - 1), e + 1))
  ELSE IF e > EMax THEN Inf(s)
  ELSE Fin(s, m1, e)

\* Round to nearest, ties to even: the quotient q and remainder r of the
\* significand by 2 * h, with st telling of a fraction below r.
RoundNearest(s, q, r, h, e, st) ==
  Pack(s, IF r > h \/ (r = h /\ (st \/ q % 2 = 1)) THEN q + 1 ELSE q, e)

\* Drop the sh low bits of M.
RoundShift(s, M, e, st, sh) ==
  IF sh <= 0
    THEN (IF e + sh > EMax THEN Inf(s) ELSE Fin(s, M * Pow2(-sh), e + sh))
  ELSE IF sh > 30 THEN Zero(s)
  ELSE RoundNearest(s, M \div Pow2(sh), M % Pow2(sh), Pow2(sh - 1), e + sh, st)

\* Round the exact value (-1)^s * (M + f) * 2^e to binary32, where
\* 0 <= M < 2^30 and f is a fraction in (0,1) if st, and 0 otherwise.
\* Callers that pass st = TRUE pass M of at least 26 bits.
round_pack(s, M, e, st) ==
  IF M = 0 THEN Zero(s)
  ELSE RoundShift(s, M, e, st,
                  IF e + (BitLen(M) - MantBits) < EMin THEN EMin - e
                  ELSE BitLen(M) - MantBits)

\* A non-zero finite value with its significand shifted into [2^23, 2^24)
\* (the exponent of a subnormal goes below EMin).
NormM(x) == x.m * Pow2(MantBits - BitLen(x.m))
NormE(x) == x.e - (MantBits - BitLen(x.m))

FNeg(x) == IF x.cls = "nan" THEN x ELSE [x EXCEPT !.s = 1 - x.s]
FAbs(x) == IF x.cls = "nan" THEN x ELSE [x EXCEPT !.s = 0]

\* |x| < |y| for finite x, y.
MagLt(x, y) == x.e < y.e \/ (x.e = y.e /\ x.m < y.m)

\* The comparisons of f32: every comparison with a NaN is false, and
\* -0.0 == 0.0.
FEq(x, y) ==
  /\ ~IsNaN(x) /\ ~IsNaN(y)
  /\ \/ IsZero(x) /\ IsZero(y)
     \/ x = y

FLt(x, y) ==
  /\ ~IsNaN(x) /\ ~IsNaN(y)
  /\ ~(IsZero(x) /\ IsZero(y))
  /\ x # y
  /\ IF x.s # y.s THEN x.s = 1
     ELSE LET lt == IF IsInf(x) THEN FALSE
                    ELSE IF IsInf(y) THEN TRUE
                    ELSE MagLt(x, y)
          IN IF x.s = 0 THEN lt ELSE ~lt

FLe(x, y) == FLt(x, y) \/ FEq(x, y)
FGt(x, y) == FLt(y, x)
FGe(x, y) == FLe(y, x)

\* x + y
f32_add(x, y) ==
  IF IsNaN(x) \/ IsNaN(y) THEN NaN
  ELSE IF IsInf(x) THEN (IF IsInf(y) /\ y.s # x.s THEN NaN ELSE x)
  ELSE IF IsInf(y) THEN y
  ELSE IF IsZero(x) /\ IsZero(y) THEN Zero(IF x.s = y.s THEN x.s ELSE 0)
  ELSE IF IsZero(x) THEN y
  ELSE IF IsZero(y) THEN x
  ELSE
    LET big == IF x.e >= y.e THEN x ELSE y
        sml == IF x.e >= y.e THEN y ELSE x
        d == big.e - sml.e
        Mb == big.m * 32
        Ms == IF d > 29 THEN 1
              ELSE LET v == sml.m * 32
                       q == v \div Pow2(d)
                   IN IF v % Pow2(d) # 0 /\ q % 2 = 0 THEN q + 1 ELSE q
    IN IF big.s = sml.s THEN RoundPack(big.s, Mb + Ms, big.e - 5, FALSE)
       ELSE IF Mb = Ms THEN Zero(0)
       ELSE IF Mb > Ms THEN RoundPack(big.s, Mb - Ms, big.e - 5, FALSE)
       ELSE RoundPack(sml.s, Ms - Mb, big.e - 5, FALSE)

\* x - y
f32_sub(x, y) == FAdd(x, FNeg(y))

\* The product of two 24-bit significands am, bm, from their 12-bit
\* halves, as << high, low >> with a low part of 19 bits.
MulLow(h, t) ==
  << (h + (t \div 16777216)) * 32 + ((t % 16777216) \div 524288), t % 524288 >>

MulMid(hh, mid, ll) == MulLow(hh + (mid \div 4096), ll + (mid % 4096) * 4096)

MulSig(am, bm) ==
  MulMid((am \div 4096) * (bm \div 4096),
         (am \div 4096) * (bm % 4096) + (am % 4096) * (bm \div 4096),
         (am % 4096) * (bm % 4096))

MulRound(s, hl, e) == RoundPack(s, hl[1], e, hl[2] # 0)

\* x * y
f32_mul(x, y) ==
  IF IsNaN(x) \/ IsNaN(y) THEN NaN
  ELSE IF IsInf(x) \/ IsInf(y)
    THEN (IF IsZero(x) \/ IsZero(y) THEN NaN ELSE Inf(IF x.s = y.s THEN 0 ELSE 1))
  ELSE IF IsZero(x) \/ IsZero(y) THEN Zero(IF x.s = y.s THEN 0 ELSE 1)
  ELSE MulRound(IF x.s = y.s THEN 0 ELSE 1, MulSig(NormM(x), NormM(y)),
                NormE(x) + NormE(y) + 19)

\* Long division of the significand am by bm, a quotient bits at a time:
\* << quotient, remainder >> after the quotient q and remainder r so far.
DivStep(qr, bm, w) ==
  << qr[1] * w + ((qr[2] * w) \div bm), (qr[2] * w) % bm >>

DivSig(am, bm) ==
  DivStep(DivStep(DivStep(DivStep(DivStep(<< am \div bm, am % bm >>,
    bm, 64), bm, 64), bm, 64), bm, 64), bm, 8)

DivRound(s, qr, e) == RoundPack(s, qr[1], e, qr[2] # 0)

\* x / y
f32_div(x, y) ==
  IF IsNaN(x) \/ IsNaN(y) THEN NaN
  ELSE IF IsInf(x) THEN (IF IsInf(y) THEN NaN ELSE Inf(IF x.s = y.s THEN 0 ELSE 1))
  ELSE IF IsInf(y) THEN Zero(IF x.s = y.s THEN 0 ELSE 1)
  ELSE IF IsZero(y)
    THEN (IF IsZero(x) THEN NaN ELSE Inf(IF x.s = y.s THEN 0 ELSE 1))
  ELSE IF IsZero(x) THEN Zero(IF x.s = y.s THEN 0 ELSE 1)
  ELSE DivRound(IF x.s = y.s THEN 0 ELSE 1, DivSig(NormM(x), NormM(y)),
                NormE(x) - NormE(y) - 27)

\* One digit of the digit-by-digit square root of mm: rr is << root,
\* remainder >> so far and n radicand bit pairs are still to come (the
\* significand's pairs first, most significant first, then zero pairs).
SqrtStep(mm, rr, n) ==
  LET pair == IF n > 14 THEN (mm \div Pow2(2 * (n - 15))) % 4 ELSE 0
      r == rr[2] * 4 + pair
      t == rr[1] * 4 + 1
  IN IF r >= t THEN << rr[1] * 2 + 1, r - t >> ELSE << rr[1] * 2, r >>

\* The remaining digits, three at a time, from st = << mm, rr, n >>.
RECURSIVE SqrtDigits(_)
SqrtDigits(st) ==
  IF st[3] = 0 THEN st[2]
  ELSE SqrtDigits(<< st[1],
                     SqrtStep(st[1], SqrtStep(st[1], SqrtStep(st[1], st[2], st[3]),
                                              st[3] - 1), st[3] - 2),
                     st[3] - 3 >>)

SqrtRound(rr, ee) == RoundPack(0, rr[1], (ee \div 2) - 14, rr[2] # 0)

\* sqrt(x)
f32_sqrt(x) ==
  IF IsNaN(x) THEN NaN
  ELSE IF IsZero(x) THEN x
  ELSE IF x.s = 1 THEN NaN
  ELSE IF IsInf(x) THEN x
  ELSE
    SqrtRound(SqrtDigits(<< IF NormE(x) % 2 # 0 THEN NormM(x) * 2 ELSE NormM(x),
                            << 0, 0 >>, 27 >>),
              IF NormE(x) % 2 # 0 THEN NormE(x) - 1 ELSE NormE(x))

\* An integer as f32 (|n| < 2^30): `n as f32`.
f32_from_int(n) == IF n < 0 THEN RoundPack(1, -n, 0, FALSE) ELSE RoundPack(0, n, 0, FALSE)

\* The f32 literal with decimal digits n (|n| < 2^24) and k <= 7 decimal
\* places, n / 10^k: both are exact in f32, so the correctly rounded
\* quotient is the literal's value.
f32_literal(n, k) == FDiv(FromInt(n), FromInt(Pow10(k)))

\* The greatest integer <= x, for finite |x| < 2^30: `x.floor() as i32`.
FloorInt(x) ==
  LET k == -x.e
      mag == IF x.e >= 0 THEN x.m * Pow2(x.e)
             ELSE IF k > 30 THEN 0 ELSE x.m \div Pow2(k)
      frac == x.e < 0 /\ x.m # 0 /\ (k > 30 \/ x.m % Pow2(k) # 0)
  IN IF x.s = 0 THEN mag ELSE IF frac THEN -(mag + 1) ELSE -mag

\* x.round(): the nearest integer, halves away from zero.
FRound(x) ==
  IF ~IsFinite(x) \/ x.e >= 0 THEN x
  ELSE IF -x.e > MantBits THEN Zero(x.s)
  ELSE LET q == x.m \div Pow2(-x.e)
           n == IF x.m % Pow2(-x.e) >= Pow2((-x.e) - 1) THEN q + 1 ELSE q
       IN IF n = 0 THEN Zero(x.s)
          ELSE IF x.s = 1 THEN FNeg(FromInt(n)) ELSE FromInt(n)

\* x * 2^n for finite x, rounded once.
f32_scalb(x, n) == IF IsZero(x) THEN x ELSE RoundPack(x.s, x.m, x.e + n, FALSE)

One == FromInt(1)
Half == Dec(5, 1)

\* std::f32::consts::PI, TAU and PI/2, PI/4 (the f32 nearest to each).
PI_32 == Fin(0, 13176795, -22)
TAU_32 == Fin(0, 13176795, -21)
FRAC_PI_2 == Fin(0, 13176795, -23)
FRAC_PI_4 == Fin(0, 13176795, -24)

\* ------------------------------------------------- f32::sin, f32::cos
\* The platform's sinf/cosf, as an argument reduction by multiples of
\* pi/2 (in two parts, PIO2_HI + PIO2_LO, the first with 17 significant
\* bits) and the Taylor kernels on [-pi/4, pi/4], all in f32: within 2 ulp
\* of the true value for |x| <= 40, odd (sin) and even (cos) in x exactly,
\* sin(+-0) = +-0 and cos(0) = 1.
PIO2_HI == Fin(0, 13176832, -23)
PIO2_LO == Fin(1, 9795450, -41)
TWO_OVER_PI == Fin(0, 10680707, -24)

\* 1 / n as f32, the Taylor coefficients of the kernels.
Recip(n) == FDiv(One, FromInt(n))

KSin(r) ==
  LET z == FMul(r, r)
      p3 == FAdd(FNeg(Recip(5040)), FMul(z, Recip(362880)))
      p2 == FAdd(Recip(120), FMul(z, p3))
      p1 == FAdd(FNeg(Recip(6)), FMul(z, p2))
      rz == FMul(r, z)
  IN InOrder(<< z, p3, p2, p1, rz >>, FAdd(r, FMul(rz, p1)))

KCos(r) ==
  LET z == FMul(r, r)
      p3 == FAdd(Recip(40320), FMul(z, FNeg(Recip(3628800))))
      p2 == FAdd(FNeg(Recip(720)), FMul(z, p3))
      p1 == FAdd(Recip(24), FMul(z, p2))
      hz == FSub(One, FMul(Half, z))
      zz == FMul(z, z)
  IN InOrder(<< z, p3, p2, p1, hz, zz >>, FAdd(hz, FMul(zz, p1)))

\* The multiple of pi/2 nearest to ax >= 0, and ax less that multiple.
ReduceK(ax) == FloorInt(FAdd(FMul(ax, TWO_OVER_PI), Half))
ReduceR(ax, k) ==
  LET kf == FromInt(k)
      hi == FSub(ax, FMul(kf, PIO2_HI))
  IN InOrder(<< kf, hi >>, FSub(hi, FMul(kf, PIO2_LO)))

\* sin and cos of k * pi/2 + r from the kernels at r.
SinQuadrant(k, r) ==
  CASE k % 4 = 0 -> KSin(r)
    [] k % 4 = 1 -> KCos(r)
    [] k % 4 = 2 -> FNeg(KSin(r))
    [] OTHER -> FNeg(KCos(r))

f32_sin(x) ==
  IF ~IsFinite(x) THEN NaN
  ELSE LET k == ReduceK(FAbs(x))
           r == ReduceR(FAbs(x), k)
           v == SinQuadrant(k, r)
       IN InOrder(<< k, r, v >>, IF x.s = 1 THEN FNeg(v) ELSE v)

f32_cos(x) ==
  IF ~IsFinite(x) THEN NaN
  ELSE LET k == ReduceK(FAbs(x))
           r == ReduceR(FAbs(x), k)
       IN InOrder(<< k, r >>, SinQuadrant(k + 1, r))

\* ------------------------------------------------------------ f32::exp
\* The platform's expf: x = n ln 2 + r, e^x = 2^n e^r with the Taylor
\* kernel for e^r; within 1 ulp, exp(0) = 1, 0 below e^-104 and infinite
\* above e^89.
LN2_HI == Fin(0, 11628544, -24)
LN2_LO == Fin(0, 8781300, -38)
INV_LN2 == Fin(0, 12102203, -23)

\* 1 / i!
ExpCoef(i) ==
  Recip(CASE i = 2 -> 2 [] i = 3 -> 6 [] i = 4 -> 24 [] i = 5 -> 120
          [] i = 6 -> 720 [] OTHER -> 5040)

\* Horner's rule from st = << r, i, acc >> down to the coefficient of r^0.
RECURSIVE ExpPoly(_)
ExpPoly(st) ==
  IF st[2] < 2 THEN st[3]
  ELSE ExpPoly(<< st[1], st[2] - 1, FAdd(ExpCoef(st[2]), FMul(st[1], st[3])) >>)

f32_exp(x) ==
  IF IsNaN(x) THEN NaN
  ELSE IF FGt(x, FromInt(89)) THEN Inf(0)
  ELSE IF FLt(x, FromInt(-104)) THEN Zero(0)
  ELSE
    LET n == FloorInt(FAdd(FMul(x, INV_LN2), Half))
        nf == FromInt(n)
        hi == FSub(x, FMul(nf, LN2_HI))
        r == FSub(hi, FMul(nf, LN2_LO))
        p == ExpPoly(<< r, 6, ExpCoef(7) >>)
        rr == FMul(r, r)
        q == FAdd(r, FMul(rr, p))
    IN InOrder(<< n, nf, hi, r, p, rr, q >>, FScalb(FAdd(One, q), n))

\* ---------------------------------------------------------- f32::atan2
\* The platform's atan2f: the arctangent of min/max of |y|, |x| (moved
\* into [-tan(pi/8), tan(pi/8)], then the Taylor kernel), placed in its
\* octant; within 3 ulp, in (-pi, pi], with the exact values of the C
\* standard on the axes.
TAN_PIO8 == Fin(0, 13898701, -25)

\* (-1)^i / (2 i + 1)
AtanCoef(i) == IF i % 2 = 1 THEN FNeg(Recip(2 * i + 1)) ELSE Recip(2 * i + 1)

\* Horner's rule from st = << z, i, acc >> down to the coefficient of z^0.
RECURSIVE AtanPoly(_)
AtanPoly(st) ==
  IF st[2] < 1 THEN st[3]
  ELSE AtanPoly(<< st[1], st[2] - 1, FAdd(AtanCoef(st[2]), FMul(st[1], st[3])) >>)

KAtan(t) ==
  LET z == FMul(t, t)
      p == AtanPoly(<< z, 7, Recip(17) >>)
      tz == FMul(t, z)
  IN InOrder(<< z, p, tz >>, FAdd(t, FMul(tz, p)))

\* atan(q) for 0 <= q <= 1.
Atan01(q) ==
  IF FGt(q, TAN_PIO8)
    THEN LET u == FDiv(FSub(q, One), FAdd(q, One))
             k == KAtan(u)
         IN InOrder(<< u, k >>, FAdd(FRAC_PI_4, k))
    ELSE KAtan(q)

\* atan2(ay, ax) for finite non-zero ay, ax > 0.
AtanOctant(ay, ax) ==
  LET q == IF FLe(ay, ax) THEN FDiv(ay, ax) ELSE FDiv(ax, ay)
      a == Atan01(q)
  IN InOrder(<< q, a >>, IF FLe(ay, ax) THEN a ELSE FSub(FRAC_PI_2, a))

\* y.atan2(x)
f32_atan2(y, x) ==
  IF IsNaN(x) \/ IsNaN(y) THEN NaN
  ELSE
    LET ay == FAbs(y)
        ax == FAbs(x)
        a == AtanOctant(ay, ax)
        v == IF IsZero(ay) THEN (IF x.s = 1 THEN PI_32 ELSE Zero(0))
             ELSE IF IsZero(ax) THEN FRAC_PI_2
             ELSE IF IsInf(ax) /\ IsInf(ay)
               THEN (IF x.s = 1 THEN FSub(PI_32, FRAC_PI_4) ELSE FRAC_PI_4)
             ELSE IF IsInf(ax) THEN (IF x.s = 1 THEN PI_32 ELSE Zero(0))
             ELSE IF IsInf(ay) THEN FRAC_PI_2
             ELSE IF x.s = 1 THEN FSub(PI_32, a) ELSE a
    IN InOrder(<< v >>, IF y.s = 1 THEN FNeg(v) ELSE v)

\* ----------------------------------------------------------- f32::powi
\* x.powi(n) for n >= 1: the multiplication chain of binary
\* exponentiation (compiler-rt's __powisf2, and LLVM's expansion of powi
\* with a constant exponent), from st = << a, b, r >>.
PowiStep(st) == IF st[2] % 2 = 1 THEN FMul(st[3], st[1]) ELSE st[3]

RECURSIVE PowiLoop(_)
PowiLoop(st) ==
  IF st[2] \div 2 = 0 THEN PowiStep(st)
  ELSE PowiLoop(<< FMul(st[1], st[1]), st[2] \div 2, PowiStep(st) >>)

f32_powi(x, n) == PowiLoop(<< x, n, One >>)

\* ------------------------------------------------------ colour samples
\* The representations of a colour handed to the formulas: the tuple
\* (f32, f32, f32), the array [f32; 3], the struct lab::Lab { l, a, b },
\* and a reference to one of them.
Tuple(l, a, b) == [kind |-> "tuple", t |-> << l, a, b >>]
Lab(l, a, b) == [kind |-> "lab", l |-> l, a |-> a, b |-> b]
Array(l, a, b) == [kind |-> "array", v |-> [i \in 0..2 |-> << l, a, b >>[i + 1]]]
Ref(c) == [kind |-> "ref", to |-> c]

\* to_lab with the elements of an array taken in reverse order.
to_lab_reversed(c) ==
  CASE c.kind = "tuple" -> c.t
    [] c.kind = "array" -> << c.v[2], c.v[1], c.v[0] >>
    [] c.kind = "lab" -> << c.l, c.a, c.b >>
    [] c.kind = "ref" /\ c.to.kind = "tuple" -> c.to.t
    [] c.kind = "ref" /\ c.to.kind = "array" -> << c.to.v[2], c.to.v[1], c.to.v[0] >>
    [] c.kind = "ref" /\ c.to.kind = "lab" -> << c.to.l, c.to.a, c.to.b >>

\* ToLab::to_lab: the (L*, a*, b*) coordinates of a colour, one
\* implementation for each representation.
to_lab(c) ==
  CASE c.kind = "tuple" -> c.t
    [] c.kind = "array" -> << c.v[0], c.v[1], c.v[2] >>
    [] c.kind = "lab" -> << c.l, c.a, c.b >>
    [] c.kind = "ref" /\ c.to.kind = "tuple" -> c.to.t
    [] c.kind = "ref" /\ c.to.kind = "array" -> << c.to.v[0], c.to.v[1], c.to.v[2] >>
    [] c.kind = "ref" /\ c.to.kind = "lab" -> << c.to.l, c.to.a, c.to.b >>

\* cie00::tests::from_tripple
from_tripple(lab) == Lab(lab[1], lab[2], lab[3])


\* math::hypot
hypot(x, y) == FSqrt(FAdd(FMul(x, x), FMul(y, y)))

\* (l * l + c * c + h * h).sqrt(), the last line of each diff.
norm3(l, c, h) ==
  LET ll == FMul(l, l)
      lc == FAdd(ll, FMul(c, c))
      lch == FAdd(lc, FMul(h, h))
  IN InOrder(<< ll, lc, lch >>, FSqrt(lch))

\* ---------------------------------------------------------------- CIE76
\* cie76::diff without the square of dl.
cie76_diff_unsquared(colour_1, colour_2) ==
  LET c1 == to_lab(colour_1)
      c2 == to_lab(colour_2)
      dl == FSub(c1[1], c2[1])
      da == FSub(c1[2], c2[2])
      db == FSub(c1[3], c2[3])
      la == FAdd(dl, FMul(da, da))
      lab == FAdd(la, FMul(db, db))
  IN InOrder(<< c1, c2, dl, da, db, la, lab >>, FSqrt(lab))

\* cie76::diff with db left out of the sum.
cie76_diff_no_b(colour_1, colour_2) ==
  LET c1 == to_lab(colour_1)
      c2 == to_lab(colour_2)
      dl == FSub(c1[1], c2[1])
      da == FSub(c1[2], c2[2])
      la == FAdd(FMul(dl, dl), FMul(da, da))
  IN InOrder(<< c1, c2, dl, da, la >>, FSqrt(la))

\* cie76::diff without the final .sqrt().
cie76_diff_squared(colour_1, colour_2) ==
  LET c1 == to_lab(colour_1)
      c2 == to_lab(colour_2)
      dl == FSub(c1[1], c2[1])
      da == FSub(c1[2], c2[2])
      db == FSub(c1[3], c2[3])
      la == FAdd(FMul(dl, dl), FMul(da, da))
  IN InOrder(<< c1, c2, dl, da, db, la >>, FAdd(la, FMul(db, db)))

cie76_diff(colour_1, colour_2) ==
  LET c1 == to_lab(colour_1)
      c2 == to_lab(colour_2)
      dl == FSub(c1[1], c2[1])
      da == FSub(c1[2], c2[2])
      db == FSub(c1[3], c2[3])
  IN InOrder(<< c1, c2, dl, da, db >>, norm3(dl, da, db))

\* ---------------------------------------------------------------- CIE94
Params(l, c, h) == [l |-> l, c |-> c, h |-> h]
Params_graphic == Params(Dec(1, 0), Dec(45, 3), Dec(15, 3))
Params_textiles == Params(Dec(2, 0), Dec(48, 3), Dec(14, 3))
\* Params::default() returning the textiles preset.
Params_default_textiles == Params_textiles

Params_default == Params_graphic

\* The hue term with the quantity under the root clamped at zero.
get_delta_h_clamped(delta_a, delta_b, delta_c) ==
  LET a2 == FPowi(delta_a, 2)
      ab == FAdd(a2, FPowi(delta_b, 2))
      abc == FSub(ab, FPowi(delta_c, 2))
  IN InOrder(<< a2, ab, abc >>, IF FLt(abc, Zero(0)) THEN Zero(0) ELSE FSqrt(abc))

\* (delta_a.powi(2) + delta_b.powi(2) - delta_c.powi(2)).sqrt()
get_delta_h(delta_a, delta_b, delta_c) ==
  LET a2 == FPowi(delta_a, 2)
      ab == FAdd(a2, FPowi(delta_b, 2))
      abc == FSub(ab, FPowi(delta_c, 2))
  IN InOrder(<< a2, ab, abc >>, FSqrt(abc))

\* diff_impl multiplying by the chroma factors it is to divide by.
cie94_diff_impl_multiplied(reference, colour, ksub) ==
  LET delta_l == FSub(reference[1], colour[1])
      delta_a == FSub(reference[2], colour[2])
      delta_b == FSub(reference[3], colour[3])
      c_1 == hypot(reference[2], reference[3])
      c_2 == hypot(colour[2], colour[3])
      delta_c == FSub(c_1, c_2)
      delta_h == get_delta_h(delta_a, delta_b, delta_c)
      l == FDiv(delta_l, ksub.l)
      c == FMul(delta_c, FAdd(One, FMul(ksub.c, c_1)))
      h == FMul(delta_h, FAdd(One, FMul(ksub.h, c_1)))
  IN InOrder(<< delta_l, delta_a, delta_b, c_1, c_2, delta_c, delta_h, l, c, h >>,
             norm3(l, c, h))

cie94_diff_impl(reference, colour, ksub) ==
  LET delta_l == FSub(reference[1], colour[1])
      delta_a == FSub(reference[2], colour[2])
      delta_b == FSub(reference[3], colour[3])
      c_1 == hypot(reference[2], reference[3])
      c_2 == hypot(colour[2], colour[3])
      delta_c == FSub(c_1, c_2)
      delta_h == get_delta_h(delta_a, delta_b, delta_c)
      l == FDiv(delta_l, ksub.l)
      c == FDiv(delta_c, FAdd(One, FMul(ksub.c, c_1)))
      h == FDiv(delta_h, FAdd(One, FMul(ksub.h, c_1)))
  IN InOrder(<< delta_l, delta_a, delta_b, c_1, c_2, delta_c, delta_h, l, c, h >>,
             norm3(l, c, h))

\* cie94::diff with reference and colour handed over in the wrong order.
cie94_diff_swapped(reference, colour, ksub) ==
  cie94_diff_impl(to_lab(colour), to_lab(reference), ksub)

cie94_diff(reference, colour, ksub) ==
  cie94_diff_impl(to_lab(reference), to_lab(colour), ksub)

\* ------------------------------------------------------------------ CMC
LC11 == << Dec(1, 0), Dec(1, 0) >>
LC21 == << Dec(2, 0), Dec(1, 0) >>

\* (-PI * 49.0 / 45.0) as f32 = -3.4208453, (-TAU / 24.0) as f32 =
\* -0.2617994, (TAU * 7.0 / 15.0) as f32 = 2.9321532 and
\* (PI * 7.0 / 36.0) as f32 = 0.61086524: f64 expressions, rounded once.
cmc_START == Fin(1, 14348065, -22)
cmc_END == Fin(1, 8784530, -25)
cmc_D168 == Fin(0, 12298342, -22)
cmc_D35 == Fin(0, 10248618, -24)

\* The closure ft of get_t, with the hue h it captures.
ft(h, m, d) ==
  LET cos == FCos(FAdd(h, d))
  IN InOrder(<< cos >>, FAbs(FMul(m, cos)))

get_t(a, b) ==
  LET h == FAtan2(b, a)
      t == IF FLe(cmc_START, h) /\ FLe(h, cmc_END)
             THEN ft(h, Dec(2, 1), cmc_D168)
             ELSE ft(h, Dec(4, 1), cmc_D35)
  IN InOrder(<< h, t >>,
             IF FLe(cmc_START, h) /\ FLe(h, cmc_END)
               THEN FAdd(Dec(56, 2), t)
               ELSE FAdd(Dec(36, 2), t))

\* (1639.0f64 / 3206.0f64) as f32 = 0.5112289
cmc_S == Fin(0, 8576998, -24)

\* s_l of diff_impl with 0.6 for the constant below 16.
cmc_s_l_jump(reference_l) ==
  IF FLt(reference_l, Dec(16, 0))
    THEN Dec(6, 1)
    ELSE FDiv(FMul(Dec(40975, 6), reference_l),
              FAdd(One, FMul(Dec(1765, 5), reference_l)))

\* s_l of diff_impl: the lightness scale, of the reference's lightness.
cmc_s_l(reference_l) ==
  IF FLt(reference_l, Dec(16, 0))
    THEN cmc_S
    ELSE FDiv(FMul(Dec(40975, 6), reference_l),
              FAdd(One, FMul(Dec(1765, 5), reference_l)))

\* s_c of diff_impl: the chroma scale, of the reference's chroma.
cmc_s_c(c_1) ==
  FAdd(FDiv(FMul(Dec(638, 4), c_1), FAdd(One, FMul(Dec(131, 4), c_1))),
       Dec(638, 3))

\* f of diff_impl
cmc_f(c_1) ==
  LET tmp == FPowi(c_1, 4)
  IN InOrder(<< tmp >>, FSqrt(FDiv(tmp, FAdd(tmp, Dec(1900, 0)))))

\* s_h of diff_impl with the sign of 1 - f turned round.
cmc_s_h_inverted(s_c, f, t) == FMul(s_c, FSub(FSub(FMul(f, t), One), f))

\* s_h of diff_impl: the hue scale.
cmc_s_h(s_c, f, t) == FMul(s_c, FSub(FAdd(FMul(f, t), One), f))

cmc_diff_impl(reference, colour, lc) ==
  LET delta_l == FSub(reference[1], colour[1])
      delta_a == FSub(reference[2], colour[2])
      delta_b == FSub(reference[3], colour[3])
      c_1 == hypot(reference[2], reference[3])
      c_2 == hypot(colour[2], colour[3])
      delta_c == FSub(c_1, c_2)
      delta_h == get_delta_h(delta_a, delta_b, delta_c)
      s_l == cmc_s_l(reference[1])
      s_c == cmc_s_c(c_1)
      f == cmc_f(c_1)
      t == get_t(reference[2], reference[3])
      s_h == cmc_s_h(s_c, f, t)
      l == FDiv(delta_l, FMul(lc[1], s_l))
      c == FDiv(delta_c, FMul(lc[2], s_c))
      h == FDiv(delta_h, s_h)
  IN InOrder(<< delta_l, delta_a, delta_b, c_1, c_2, delta_c, delta_h, s_l, s_c,
                f, t, s_h, l, c, h >>,
             norm3(l, c, h))

\* cmc::diff with reference and colour handed over in the wrong order.
cmc_diff_swapped(reference, colour, lc) ==
  cmc_diff_impl(to_lab(colour), to_lab(reference), lc)

cmc_diff(reference, colour, lc) ==
  cmc_diff_impl(to_lab(reference), to_lab(colour), lc)

\* ------------------------------------------------------------ CIEDE2000
KSubParams(l, c, h) == [l |-> l, c |-> c, h |-> h]
KSubParams_default == KSubParams(Dec(1, 0), Dec(1, 0), Dec(1, 0))
KSubParams_yang2012 == KSubParams(Dec(65, 2), Dec(1, 0), Dec(4, 0))

\* 6103515625f32 = 11920929 * 2^9
TWENTY_FIVE_TO_SEVENTH == Fin(0, 11920929, 9)

\* (TAU_64 / 12.0) as f32 = 0.5235988, (TAU_64 / 60.0) as f32 = 0.10471976,
\* (TAU_64 * 0.175) as f32 = 1.0995574, (14.4 / TAU_64) as f32 = 2.2918313,
\* (TAU_64 / 6.0) as f32 = 1.0471976
THIRTY_DEG_IN_RAD == Fin(0, 8784530, -24)
SIX_DEG_IN_RAD == Fin(0, 14055248, -27)
SIXTY_THREE_DEG_IN_RAD == Fin(0, 9223756, -23)
cie00_H_SCALE == Fin(0, 9612637, -22)
SIXTY_DEG_IN_RAD == Fin(0, 8784530, -23)

\* get_h_prime without the turn added to a negative angle.
get_h_prime_signed(x, y) ==
  IF FEq(x, Zero(0)) /\ FEq(y, Zero(0)) THEN Zero(0)
  ELSE FAtan2(x, y)

get_h_prime(x, y) ==
  IF FEq(x, Zero(0)) /\ FEq(y, Zero(0)) THEN Zero(0)
  ELSE LET rad == FAtan2(x, y)
       IN InOrder(<< rad >>, IF FLt(rad, Zero(0)) THEN FAdd(rad, TAU_32) ELSE rad)

\* get_delta_h_prime without the early return for a zero chroma.
get_delta_h_prime_unguarded(c1, c2, h_prime_1, h_prime_2) ==
  LET diff == FSub(h_prime_2, h_prime_1)
  IN InOrder(<< diff >>,
             IF FLe(FAbs(diff), PI_32) THEN diff
             ELSE IF FLe(h_prime_2, h_prime_1) THEN FAdd(diff, TAU_32)
             ELSE FSub(diff, TAU_32))

\* get_delta_h_prime with its comparison against PI the wrong way round.
get_delta_h_prime_inverted(c1, c2, h_prime_1, h_prime_2) ==
  IF FEq(Zero(0), c1) \/ FEq(Zero(0), c2) THEN Zero(0)
  ELSE LET diff == FSub(h_prime_2, h_prime_1)
       IN InOrder(<< diff >>,
                  IF FGe(FAbs(diff), PI_32) THEN diff
                  ELSE IF FLe(h_prime_2, h_prime_1) THEN FAdd(diff, TAU_32)
                  ELSE FSub(diff, TAU_32))

get_delta_h_prime(c1, c2, h_prime_1, h_prime_2) ==
  IF FEq(Zero(0), c1) \/ FEq(Zero(0), c2) THEN Zero(0)
  ELSE LET diff == FSub(h_prime_2, h_prime_1)
       IN InOrder(<< diff >>,
                  IF FLe(FAbs(diff), PI_32) THEN diff
                  ELSE IF FLe(h_prime_2, h_prime_1) THEN FAdd(diff, TAU_32)
                  ELSE FSub(diff, TAU_32))

get_upcase_t(upcase_h_prime_bar) ==
  LET t1 == FMul(Dec(17, 2), FCos(FSub(upcase_h_prime_bar, THIRTY_DEG_IN_RAD)))
      s1 == FSub(One, t1)
      t2 == FMul(Dec(24, 2), FCos(FMul(Dec(2, 0), upcase_h_prime_bar)))
      s2 == FAdd(s1, t2)
      a3 == FAdd(FMul(Dec(3, 0), upcase_h_prime_bar), SIX_DEG_IN_RAD)
      t3 == FMul(Dec(32, 2), FCos(a3))
      s3 == FAdd(s2, t3)
      a4 == FSub(FMul(Dec(4, 0), upcase_h_prime_bar), SIXTY_THREE_DEG_IN_RAD)
      t4 == FMul(Dec(20, 2), FCos(a4))
  IN InOrder(<< t1, s1, t2, s2, a3, t3, s3, a4, t4 >>, FSub(s3, t4))

\* get_r_sub_t with the factor -20 in the place of -2.
get_r_sub_t_tenfold(c_prime_bar, upcase_h_prime_bar) ==
  LET c7 == FPowi(c_prime_bar, 7)
      h == FSub(FMul(upcase_h_prime_bar, cie00_H_SCALE), Dec(11, 0))
      ratio == FDiv(c7, FAdd(c7, TWENTY_FIVE_TO_SEVENTH))
      r_sub_c == FMul(Dec(-20, 0), FSqrt(ratio))
      h2 == FNeg(FPowi(h, 2))
      theta == FMul(FExp(h2), SIXTY_DEG_IN_RAD)
      sin == FSin(theta)
  IN InOrder(<< c7, h, ratio, r_sub_c, h2, theta, sin >>, FMul(r_sub_c, sin))

get_r_sub_t(c_prime_bar, upcase_h_prime_bar) ==
  LET c7 == FPowi(c_prime_bar, 7)
      h == FSub(FMul(upcase_h_prime_bar, cie00_H_SCALE), Dec(11, 0))
      ratio == FDiv(c7, FAdd(c7, TWENTY_FIVE_TO_SEVENTH))
      r_sub_c == FMul(Dec(-2, 0), FSqrt(ratio))
      h2 == FNeg(FPowi(h, 2))
      theta == FMul(FExp(h2), SIXTY_DEG_IN_RAD)
      sin == FSin(theta)
  IN InOrder(<< c7, h, ratio, r_sub_c, h2, theta, sin >>, FMul(r_sub_c, sin))

\* get_upcase_h_prime_bar without the .abs() on the hue difference.
get_upcase_h_prime_bar_signed(h_prime_1, h_prime_2) ==
  LET mean == FMul(FAdd(h_prime_1, h_prime_2), Half)
  IN InOrder(<< mean >>,
             IF FGt(FSub(h_prime_1, h_prime_2), PI_32)
               THEN FAdd(mean, PI_32)
               ELSE mean)

\* H-bar-prime of CIEDE2000: the mean hue, on the far side of the circle
\* when the hues are more than pi apart.
get_upcase_h_prime_bar(h_prime_1, h_prime_2) ==
  LET mean == FMul(FAdd(h_prime_1, h_prime_2), Half)
  IN InOrder(<< mean >>,
             IF FGt(FAbs(FSub(h_prime_1, h_prime_2)), PI_32)
               THEN FAdd(mean, PI_32)
               ELSE mean)

\* (lightness.powi(2) + chroma.powi(2) + hue.powi(2) +
\*  r_sub_t * chroma * hue).sqrt(), the last line of diff_with_params.
cie00_total(lightness, chroma, hue, r_sub_t) ==
  LET l2 == FPowi(lightness, 2)
      lc == FAdd(l2, FPowi(chroma, 2))
      lch == FAdd(lc, FPowi(hue, 2))
      rot == FMul(FMul(r_sub_t, chroma), hue)
      sum == FAdd(lch, rot)
  IN InOrder(<< l2, lc, lch, rot, sum >>, FSqrt(sum))

diff_with_params(color_1, color_2, ksub) ==
  LET l_bar == FMul(FAdd(color_1.l, color_2.l), Half)
      delta_l == FSub(color_2.l, color_1.l)
      c1 == hypot(color_1.a, color_1.b)
      c2 == hypot(color_2.a, color_2.b)
      tmp1 == FPowi(FMul(FAdd(c1, c2), Half), 7)
      tmp2 == FSub(Dec(15, 1),
                   FMul(FSqrt(FDiv(tmp1, FAdd(tmp1, TWENTY_FIVE_TO_SEVENTH))), Half))
      a_prime_1 == FMul(color_1.a, tmp2)
      a_prime_2 == FMul(color_2.a, tmp2)
      c_prime_1 == hypot(a_prime_1, color_1.b)
      c_prime_2 == hypot(a_prime_2, color_2.b)
      c_prime_bar == FMul(FAdd(c_prime_1, c_prime_2), Half)
      delta_c_prime == FSub(c_prime_2, c_prime_1)
      tmp3 == FPowi(FSub(l_bar, Dec(50, 0)), 2)
      s_sub_l == FAdd(One, FDiv(FMul(Dec(15, 3), tmp3),
                                FSqrt(FAdd(Dec(20, 0), tmp3))))
      s_sub_c == FAdd(One, FMul(Dec(45, 3), c_prime_bar))
      h_prime_1 == get_h_prime(color_1.b, a_prime_1)
      h_prime_2 == get_h_prime(color_2.b, a_prime_2)
      delta_h_prime == get_delta_h_prime(c1, c2, h_prime_1, h_prime_2)
      delta_upcase_h_prime ==
        FMul(FMul(Dec(2, 0), FSqrt(FMul(c_prime_1, c_prime_2))),
             FSin(FMul(Half, delta_h_prime)))
      upcase_h_prime_bar == get_upcase_h_prime_bar(h_prime_1, h_prime_2)
      upcase_t == get_upcase_t(upcase_h_prime_bar)
      s_sub_upcase_h == FAdd(One, FMul(FMul(Dec(15, 3), c_prime_bar), upcase_t))
      lightness == FDiv(delta_l, FMul(ksub.l, s_sub_l))
      chroma == FDiv(delta_c_prime, FMul(ksub.c, s_sub_c))
      hue == FDiv(delta_upcase_h_prime, FMul(ksub.h, s_sub_upcase_h))
      r_sub_t == get_r_sub_t(c_prime_bar, upcase_h_prime_bar)
  IN InOrder(<< l_bar, delta_l, c1, c2, tmp1, tmp2, a_prime_1, a_prime_2,
                c_prime_1, c_prime_2, c_prime_bar, delta_c_prime, tmp3,
                s_sub_l, s_sub_c, h_prime_1, h_prime_2, delta_h_prime,
                delta_upcase_h_prime, upcase_h_prime_bar, upcase_t,
                s_sub_upcase_h, lightness, chroma, hue, r_sub_t >>,
             cie00_total(lightness, chroma, hue, r_sub_t))

cie00_diff(color_1, color_2) ==
  Call(<< "cie00::diff_with_params", color_1, color_2, KSubParams_default >>)

\* ------------------------------------------------------------ test data
\* cie00::tests::TESTS, cie94::tests::TESTS and cmc::tests::TESTS list the
\* same 34 colour pairs (Sharma, Wu and Dalal); each row here is
\* L1, a1, b1, L2, a2, b2 in units of 0.0001.
TESTS ==
  << << 1000000, 50, -100, 0, 0, 0 >>,
     << 500000, 26772, -797751, 500000, 0, -827485 >>,
     << 500000, 31571, -772803, 500000, 0, -827485 >>,
     << 500000, 28361, -740200, 500000, 0, -827485 >>,
     << 500000, -13802, -842814, 500000, 0, -827485 >>,
     << 500000, -11848, -848006, 500000, 0, -827485 >>,
     << 500000, -9009, -855211, 500000, 0, -827485 >>,
     << 500000, 0, 0, 500000, -10000, 20000 >>,
     << 500000, -10000, 20000, 500000, 0, 0 >>,
     << 500000, 24900, -10, 500000, -24900, 9 >>,
     << 500000, 24900, -10, 500000, -24900, 10 >>,
     << 500000, 24900, -10, 500000, -24900, 11 >>,
     << 500000, 24900, -10, 500000, -24900, 12 >>,
     << 500000, -10, 24900, 500000, 9, -24900 >>,
     << 500000, -10, 24900, 500000, 11, -24900 >>,
     << 500000, 25000, 0, 500000, 0, -25000 >>,
     << 500000, 25000, 0, 730000, 250000, -180000 >>,
     << 500000, 25000, 0, 610000, -50000, 290000 >>,
     << 500000, 25000, 0, 560000, -270000, -30000 >>,
     << 500000, 25000, 0, 580000, 240000, 150000 >>,
     << 500000, 25000, 0, 500000, 31736, 5854 >>,
     << 500000, 25000, 0, 500000, 32972, 0 >>,
     << 500000, 25000, 0, 500000, 18634, 5757 >>,
     << 500000, 25000, 0, 500000, 32592, 3350 >>,
     << 602574, -340099, 362677, 604626, -341751, 394387 >>,
     << 630109, -310961, -58663, 628187, -297946, -40864 >>,
     << 612901, 37196, -53901, 614292, 22480, -49620 >>,
     << 350831, -441164, 37933, 350232, -400716, 15901 >>,
     << 227233, 200904, -466940, 230331, 149730, -425619 >>,
     << 364612, 478580, 183852, 362715, 505065, 212231 >>,
     << 908027, -20831, 14410, 911528, -16435, 447 >>,
     << 909257, -5406, -9208, 886381, -8985, -7239 >>,
     << 67747, -2908, -24247, 58714, -985, -22286 >>,
     << 20776, 795, -11350, 9033, -636, -5514 >> >>

WANT_cie00 ==
  << 1000000, 20425, 28615, 34412, 10000, 10000, 10000, 23669,
     23669, 71792, 71792, 72195, 72195, 48045, 47461, 43065,
     271492, 228977, 319030, 194535, 10000, 10000, 10000, 10000,
     12644, 12630, 18731, 18645, 20373, 14146, 14441, 15381,
     6377, 9082 >>

WANT_cie94 ==
  << 1000000, 13950, 19341, 24543, 6845, 6696, 6919, 22361,
     20316, 48007, 48007, 48007, 48007, 48007, 48007, 34077,
     346892, 294414, 279141, 249377, 8221, 7166, 8049, 7528,
     13910, 12481, 12980, 18205, 25561, 14249, 14195, 23226,
     9385, 13065 >>

WANT_cmc ==
  << 674802, 17387, 24966, 33049, 8574, 8833, 9782, 35048,
     28793, 65784, 65784, 65784, 65784, 66749, 66749, 46685,
     421088, 394589, 383601, 339366, 11440, 10060, 11130, 10534,
     14282, 12548, 17684, 20626, 30870, 17489, 19010, 17026,
     18024, 24484 >>

\* cie76::tests::TESTS: want, (L1, a1, b1), (L2, a2, b2), whole numbers.
TESTS_cie76 ==
  << << 5, 0, 0, 0, 3, 4, 0 >>,
     << 5, 0, 0, 0, 3, -4, 0 >>,
     << 5, 0, 0, 0, -3, 4, 0 >>,
     << 5, 0, 4, 0, 3, 0, 0 >>,
     << 5, 0, 2, 0, 3, -2, 0 >>,
     << 97, 0, 0, 0, 0, 65, -72 >> >>

\* Number of colours generate_colours is asked for.
COUNT == 12
\* Largest multiple of a direction on the whole-number grid.
GridMax == 3

Rows == 1..Len(TESTS)
Row1(i) == << Dec(TESTS[i][1], 4), Dec(TESTS[i][2], 4), Dec(TESTS[i][3], 4) >>
Row2(i) == << Dec(TESTS[i][4], 4), Dec(TESTS[i][5], 4), Dec(TESTS[i][6], 4) >>
TableRows == [i \in Rows |-> << Row1(i), Row2(i) >>]
TableColours == {TableRows[i][1] : i \in Rows} \cup {TableRows[i][2] : i \in Rows}
TablePairs ==
  {TableRows[i] : i \in Rows} \cup {<< TableRows[i][2], TableRows[i][1] >> : i \in Rows}

\* testutil::generate_colours: count colours with L in 0..=100, a in
\* -100..=100 and b in -110..=100.  The seeded generator's values are
\* replaced by a fixed sequence that covers the same ranges.
generate_colours(count) ==
  [i \in 1..count |->
     << Dec((i * 373) % 1001, 1),
        Dec(((i * 537) % 2001) - 1000, 1),
        Dec(((i * 711) % 2101) - 1100, 1) >>]

Samples == generate_colours(COUNT)
SampleColours == {Samples[i] : i \in 1..COUNT}
\* generate_colours(COUNT).windows(2)
Windows == {<< Samples[i], Samples[i + 1] >> : i \in 1..(COUNT - 1)}
\* Whole-number colours on lines through (50, 0, 0).
GridDirections == {<< 1, 1, 1 >>, << 1, 2, 0 >>}
GridColours ==
  {<< FromInt(50 + i * v[1]), FromInt(i * v[2]), FromInt(i * v[3]) >> :
     i \in (0 - GridMax)..GridMax, v \in GridDirections}

\* Colours at the rim of 1000 times the conventional range, and beyond it.
WideColours ==
  {<< FromInt(100000), FromInt(100000), FromInt(-100000) >>,
   << FromInt(0), FromInt(-100000), FromInt(100000) >>}
HugeColours == {<< FromInt(50), FromInt(1000000), FromInt(0) >>}

\* Pairs whose coordinates differ by 2^-75, 1.5 * 2^-75 and 2^-60, and a
\* pair at the two ends of the f32 range.
MaxF == Fin(0, 16777215, EMax)
Origin == << Zero(0), Zero(0), Zero(0) >>
EdgePairs ==
  {<< Origin, << FScalb(One, -75), Zero(0), Zero(0) >> >>,
   << Origin, << Zero(0), FScalb(Dec(15, 1), -75), Zero(0) >> >>,
   << << Zero(0), Zero(0), FScalb(One, -60) >>, Origin >>,
   << << One, FScalb(One, -75), Zero(0) >>, << One, FNeg(FScalb(One, -75)), Zero(0) >> >>,
   << << MaxF, Zero(0), Zero(0) >>, << FNeg(MaxF), Zero(0), Zero(0) >> >>}

ZeroPairs ==
  {<< c, c >> : c \in SampleColours \cup TableColours \cup WideColours \cup HugeColours}
Pairs == ZeroPairs \cup Windows \cup TablePairs
Pairs_cie76 ==
  Pairs \cup EdgePairs \cup (GridColours \X GridColours)
    \cup {<< << FromInt(TESTS_cie76[i][2]), FromInt(TESTS_cie76[i][3]),
                FromInt(TESTS_cie76[i][4]) >>,
             << FromInt(TESTS_cie76[i][5]), FromInt(TESTS_cie76[i][6]),
                FromInt(TESTS_cie76[i][7]) >> >> : i \in 1..Len(TESTS_cie76)}

\* Pairs of colours of one hue (a* = b*), a grey and a colour of chroma
\* sqrt(61): their chroma difference is the whole distance in the a*b* plane.
HueColours ==
  {<< FromInt(50 + i), FromInt(i), FromInt(i) >> : i \in 3..5}
    \cup {<< FromInt(50), FromInt(0), FromInt(0) >>,
          << FromInt(50), FromInt(6), FromInt(5) >>}
HuePairs == HueColours \X HueColours

\* Weights with one of the three set to zero.
ZeroWeights(k) ==
  {[k EXCEPT !.l = Zero(0)], [k EXCEPT !.c = Zero(0)], [k EXCEPT !.h = Zero(0)]}
LC12 == << Dec(1, 0), Dec(2, 0) >>


\* The grey reference (50, 0, 0) against colours in several directions, and
\* weights with k_l = 1 besides the presets.
GreyReferencePairs ==
  {<< << FromInt(50), Zero(0), Zero(0) >>, c >> :
     c \in {<< FromInt(50), FromInt(1), FromInt(6) >>,
            << FromInt(40), FromInt(3), FromInt(4) >>,
            << FromInt(40), Dec(-47, 1), Dec(7, 1) >>,
            << FromInt(40), Dec(-49, 1), Dec(4, 1) >>}}
Calls_cie94 ==
  (Pairs \X {Params_graphic, Params_textiles})
    \cup ({TableRows[i] : i \in Rows} \X ZeroWeights(Params_graphic))
    \cup (HuePairs \X {Params_graphic})
    \cup (GreyReferencePairs
           \X {Params_graphic, Params_textiles, Params(One, Half, Dec(2, 0)),
               Params(One, Zero(0), Zero(0))})

\* Pairs of one a* and b* whose lightnesses lie on either side of 16, below
\* zero included.
LightnessPairs ==
  {<< << l1, FromInt(3), FromInt(4) >>, << l2, FromInt(3), FromInt(4) >> >> :
     l1, l2 \in {FromInt(-5), FromInt(10), Dec(15999, 3), FromInt(16), FromInt(50)}}
Calls_cmc ==
  (Pairs \X {LC11, LC21, LC12}) \cup (HuePairs \X {LC11})
    \cup (LightnessPairs \X {LC21})
Calls_cie00 ==
  (Pairs \X {KSubParams_yang2012})
    \cup ({TableRows[i] : i \in Rows} \X ZeroWeights(KSubParams_default))
    \cup (({Origin} \X HugeColours) \X {KSubParams_yang2012})

\* The same colours handed over in each representation.
Representations == {"tuple", "&tuple", "array", "&array", "lab", "&lab"}
Represent(r, p) ==
  CASE r = "tuple" -> Tuple(p[1], p[2], p[3])
    [] r = "&tuple" -> Ref(Tuple(p[1], p[2], p[3]))
    [] r = "array" -> Array(p[1], p[2], p[3])
    [] r = "&array" -> Ref(Array(p[1], p[2], p[3]))
    [] r = "lab" -> Lab(p[1], p[2], p[3])
    [] r = "&lab" -> Ref(Lab(p[1], p[2], p[3]))
Calls_represented ==
  {<< Represent(r[1], pq[1]), Represent(r[2], pq[2]) >> :
     pq \in {TableRows[2], TableRows[17], TableRows[34]},
     r \in Representations \X Representations}

\* The calls the threads make: one of each diff function, and a second
\* cie76::diff.
Calls_threads ==
  {[formula |-> "cie76", colour_1 |-> Tuple(TableRows[17][1][1], TableRows[17][1][2], TableRows[17][1][3]),
    colour_2 |-> Tuple(TableRows[17][2][1], TableRows[17][2][2], TableRows[17][2][3]), ksub |-> << >>],
   [formula |-> "cie76", colour_1 |-> Tuple(TableRows[8][1][1], TableRows[8][1][2], TableRows[8][1][3]),
    colour_2 |-> Tuple(TableRows[8][2][1], TableRows[8][2][2], TableRows[8][2][3]), ksub |-> << >>],
   [formula |-> "cie94", colour_1 |-> Tuple(TableRows[8][1][1], TableRows[8][1][2], TableRows[8][1][3]),
    colour_2 |-> Tuple(TableRows[8][2][1], TableRows[8][2][2], TableRows[8][2][3]), ksub |-> Params_graphic],
   [formula |-> "cmc", colour_1 |-> Tuple(TableRows[8][1][1], TableRows[8][1][2], TableRows[8][1][3]),
    colour_2 |-> Tuple(TableRows[8][2][1], TableRows[8][2][2], TableRows[8][2][3]), ksub |-> LC11],
   [formula |-> "cie00", colour_1 |-> from_tripple(TableRows[2][1]),
    colour_2 |-> from_tripple(TableRows[2][2]), ksub |-> KSubParams_default]}

\* Arguments (x, y) of get_h_prime: a whole-number grid around the origin,
\* and two directions a hair below the positive y axis.
HueMax == 2
HueArgs ==
  {<< FromInt(i), FromInt(j) >> : i, j \in (0 - HueMax)..HueMax}
    \cup {<< FNeg(FScalb(One, -26)), One >>, << Dec(-1, 4), FromInt(1000) >>}
\* Hue angles: those get_h_prime returns, and the f32 values next to pi
\* and next below 2 pi.
Hues ==
  {Call(<< "get_h_prime", p[1], p[2] >>) : p \in HueArgs}
    \cup {Fin(0, PI_32.m - 3, PI_32.e), Fin(0, PI_32.m - 1, PI_32.e),
          Fin(0, PI_32.m + 1, PI_32.e), Fin(0, TAU_32.m - 1, TAU_32.e)}
\* Arguments (c1, c2, h_prime_1, h_prime_2) of get_delta_h_prime.
Calls_get_delta_h_prime ==
  {<< c[1], c[2], h1, h2 >> :
     c \in {<< One, One >>, << Zero(0), One >>, << One, Zero(0) >>},
     h1 \in Hues, h2 \in Hues}
\* Arguments (a, b) of get_t: the grid, and hues of 174.3 and 164.1 degrees.
Calls_get_t ==
  {<< p[2], p[1] >> : p \in HueArgs}
    \cup {<< FromInt(-10), One >>, << FromInt(-7), FromInt(2) >>}

\* ----------------------------------------------------- ToLab for Gray<u8>
\* const A: f32 = 0.055 * 255.0, const D: f32 = 1.055 * 255.0,
\* const KAPPA_OVER_D: f32 = 243890.0 / 889542.0 and
\* const KAPPA: f32 = 24389.0 / 27.0
lab_A == FMul(Dec(55, 3), FromInt(255))
lab_D == FMul(Dec(1055, 3), FromInt(255))
KAPPA_OVER_D == FDiv(FromInt(243890), FromInt(889542))
KAPPA == FDiv(FromInt(24389), FromInt(27))

\* ys of lab_from_grey
ys_of(grey) == FDiv(FAdd(FromInt(grey), lab_A), lab_D)

\* The f32 nearest to x^2.4 (2.4 as f32) for x = ys_of(grey), grey = 11..30,
\* as << significand, exponent >>.
POWF_2_4 ==
  << << 14373258, -32 >>, << 15790474, -32 >>, << 8643013, -31 >>,
     << 9430548, -31 >>, << 10258427, -31 >>, << 11127221, -31 >>,
     << 12037485, -31 >>, << 12989769, -31 >>, << 13984607, -31 >>,
     << 15022529, -31 >>, << 16104048, -31 >>, << 8614837, -30 >>,
     << 9199954, -30 >>, << 9807622, -30 >>, << 10438078, -30 >>,
     << 11091563, -30 >>, << 11768311, -30 >>, << 12468553, -30 >>,
     << 13192515, -30 >>, << 13940423, -30 >> >>

\* The f32 nearest to x^0.8 (24.0 / 30.0 as f32) for x = ys_of(grey),
\* grey = 11..255.
POWF_0_8 ==
  << << 10037950, -26 >>, << 10357581, -26 >>, << 10674765, -26 >>,
     << 10989610, -26 >>, << 11302214, -26 >>, << 11612673, -26 >>,
     << 11921069, -26 >>, << 12227484, -26 >>, << 12531990, -26 >>,
     << 12834658, -26 >>, << 13135551, -26 >>, << 13434731, -26 >>,
     << 13732254, -26 >>, << 14028175, -26 >>, << 14322543, -26 >>,
     << 14615405, -26 >>, << 14906808, -26 >>, << 15196793, -26 >>,
     << 15485402, -26 >>, << 15772672, -26 >>, << 16058641, -26 >>,
     << 16343341, -26 >>, << 16626806, -26 >>, << 8454534, -25 >>,
     << 8595079, -25 >>, << 8735051, -25 >>, << 8874465, -25 >>,
     << 9013334, -25 >>, << 9151670, -25 >>, << 9289484, -25 >>,
     << 9426790, -25 >>, << 9563597, -25 >>, << 9699917, -25 >>,
     << 9835760, -25 >>, << 9971135, -25 >>, << 10106052, -25 >>,
     << 10240520, -25 >>, << 10374548, -25 >>, << 10508145, -25 >>,
     << 10641319, -25 >>, << 10774077, -25 >>, << 10906428, -25 >>,
     << 11038378, -25 >>, << 11169935, -25 >>, << 11301106, -25 >>,
     << 11431897, -25 >>, << 11562315, -25 >>, << 11692366, -25 >>,
     << 11822057, -25 >>, << 11951393, -25 >>, << 12080380, -25 >>,
     << 12209023, -25 >>, << 12337329, -25 >>, << 12465302, -25 >>,
     << 12592947, -25 >>, << 12720270, -25 >>, << 12847275, -25 >>,
     << 12973967, -25 >>, << 13100350, -25 >>, << 13226429, -25 >>,
     << 13352208, -25 >>, << 13477692, -25 >>, << 13602885, -25 >>,
     << 13727790, -25 >>, << 13852411, -25 >>, << 13976753, -25 >>,
     << 14100819, -25 >>, << 14224612, -25 >>, << 14348137, -25 >>,
     << 14471398, -25 >>, << 14594395, -25 >>, << 14717134, -25 >>,
     << 14839618, -25 >>, << 14961849, -25 >>, << 15083831, -25 >>,
     << 15205568, -25 >>, << 15327061, -25 >>, << 15448313, -25 >>,
     << 15569328, -25 >>, << 15690109, -25 >>, << 15810657, -25 >>,
     << 15930977, -25 >>, << 16051070, -25 >>, << 16170938, -25 >>,
     << 16290585, -25 >>, << 16410012, -25 >>, << 16529222, -25 >>,
     << 16648218, -25 >>, << 16767001, -25 >>, << 8442787, -24 >>,
     << 8501970, -24 >>, << 8561050, -24 >>, << 8620029, -24 >>,
     << 8678906, -24 >>, << 8737684, -24 >>, << 8796364, -24 >>,
     << 8854945, -24 >>, << 8913430, -24 >>, << 8971819, -24 >>,
     << 9030113, -24 >>, << 9088313, -24 >>, << 9146420, -24 >>,
     << 9204435, -24 >>, << 9262359, -24 >>, << 9320192, -24 >>,
     << 9377936, -24 >>, << 9435591, -24 >>, << 9493158, -24 >>,
     << 9550638, -24 >>, << 9608032, -24 >>, << 9665340, -24 >>,
     << 9722563, -24 >>, << 9779702, -24 >>, << 9836758, -24 >>,
     << 9893731, -24 >>, << 9950622, -24 >>, << 10007432, -24 >>,
     << 10064162, -24 >>, << 10120811, -24 >>, << 10177382, -24 >>,
     << 10233874, -24 >>, << 10290288, -24 >>, << 10346625, -24 >>,
     << 10402885, -24 >>, << 10459070, -24 >>, << 10515179, -24 >>,
     << 10571213, -24 >>, << 10627174, -24 >>, << 10683061, -24 >>,
     << 10738874, -24 >>, << 10794616, -24 >>, << 10850285, -24 >>,
     << 10905883, -24 >>, << 10961410, -24 >>, << 11016867, -24 >>,
     << 11072254, -24 >>, << 11127572, -24 >>, << 11182822, -24 >>,
     << 11238003, -24 >>, << 11293117, -24 >>, << 11348163, -24 >>,
     << 11403143, -24 >>, << 11458056, -24 >>, << 11512904, -24 >>,
     << 11567687, -24 >>, << 11622405, -24 >>, << 11677058, -24 >>,
     << 11731648, -24 >>, << 11786174, -24 >>, << 11840637, -24 >>,
     << 11895038, -24 >>, << 11949377, -24 >>, << 12003653, -24 >>,
     << 12057870, -24 >>, << 12112024, -24 >>, << 12166119, -24 >>,
     << 12220153, -24 >>, << 12274127, -24 >>, << 12328042, -24 >>,
     << 12381899, -24 >>, << 12435697, -24 >>, << 12489436, -24 >>,
     << 12543118, -24 >>, << 12596743, -24 >>, << 12650310, -24 >>,
     << 12703821, -24 >>, << 12757276, -24 >>, << 12810674, -24 >>,
     << 12864018, -24 >>, << 12917305, -24 >>, << 12970538, -24 >>,
     << 13023717, -24 >>, << 13076841, -24 >>, << 13129911, -24 >>,
     << 13182928, -24 >>, << 13235891, -24 >>, << 13288802, -24 >>,
     << 13341660, -24 >>, << 13394465, -24 >>, << 13447220, -24 >>,
     << 13499922, -24 >>, << 13552572, -24 >>, << 13605172, -24 >>,
     << 13657720, -24 >>, << 13710218, -24 >>, << 13762666, -24 >>,
     << 13815064, -24 >>, << 13867413, -24 >>, << 13919712, -24 >>,
     << 13971962, -24 >>, << 14024163, -24 >>, << 14076316, -24 >>,
     << 14128420, -24 >>, << 14180476, -24 >>, << 14232485, -24 >>,
     << 14284446, -24 >>, << 14336360, -24 >>, << 14388227, -24 >>,
     << 14440047, -24 >>, << 14491821, -24 >>, << 14543549, -24 >>,
     << 14595230, -24 >>, << 14646866, -24 >>, << 14698457, -24 >>,
     << 14750002, -24 >>, << 14801503, -24 >>, << 14852959, -24 >>,
     << 14904370, -24 >>, << 14955736, -24 >>, << 15007059, -24 >>,
     << 15058338, -24 >>, << 15109573, -24 >>, << 15160765, -24 >>,
     << 15211913, -24 >>, << 15263019, -24 >>, << 15314082, -24 >>,
     << 15365102, -24 >>, << 15416080, -24 >>, << 15467016, -24 >>,
     << 15517910, -24 >>, << 15568763, -24 >>, << 15619574, -24 >>,
     << 15670343, -24 >>, << 15721072, -24 >>, << 15771759, -24 >>,
     << 15822406, -24 >>, << 15873012, -24 >>, << 15923579, -24 >>,
     << 15974105, -24 >>, << 16024591, -24 >>, << 16075037, -24 >>,
     << 16125444, -24 >>, << 16175812, -24 >>, << 16226140, -24 >>,
     << 16276429, -24 >>, << 16326680, -24 >>, << 16376892, -24 >>,
     << 16427065, -24 >>, << 16477200, -24 >>, << 16527297, -24 >>,
     << 16577356, -24 >>, << 16627377, -24 >>, << 16677361, -24 >>,
     << 16727307, -24 >>, << 8388608, -23 >> >>

\* f32::powf(x, y) on the arguments lab_from_grey passes.  The precision of
\* powf is unspecified: the result is the f32 nearest to x^y or one of its
\* two neighbours (ulps = -1, 0, 1); powf(1.0, y) is 1.0.
powf(x, y, ulps) ==
  LET grey == FloorInt(FRound(FSub(FMul(x, lab_D), lab_A)))
      row == IF y = Dec(24, 1) THEN POWF_2_4[grey - 10] ELSE POWF_0_8[grey - 10]
  IN IF x = One THEN One ELSE Fin(0, row[1] + ulps, row[2])

\* lab_from_grey with the breakpoints one grey level late.
lab_from_grey_late(grey, ulps) ==
  LET ys == ys_of(grey)
  IN << IF grey <= 11 THEN FMul(FromInt(grey), KAPPA_OVER_D)
        ELSE IF grey <= 24 THEN FMul(KAPPA, powf(ys, Dec(24, 1), ulps))
        ELSE FSub(FMul(FromInt(116), powf(ys, FDiv(FromInt(24), FromInt(30)), ulps)),
                  FromInt(16)),
        Zero(0), Zero(0) >>

lab_from_grey(grey, ulps) ==
  LET ys == ys_of(grey)
  IN << IF grey <= 10 THEN FMul(FromInt(grey), KAPPA_OVER_D)
        ELSE IF grey <= 23 THEN FMul(KAPPA, powf(ys, Dec(24, 1), ulps))
        ELSE FSub(FMul(FromInt(116), powf(ys, FDiv(FromInt(24), FromInt(30)), ulps)),
                  FromInt(16)),
        Zero(0), Zero(0) >>

\* Arguments of lab_from_grey: every u8, with each outcome of powf.
Calls_lab_from_grey == (0..255) \X (-1..1)

\* ------------------------------------------------------- ToLab for pixels
\* The pixel types of the rgb crate: RGB<u8> has the fields r, g, b in this
\* order in memory, alt::BGR<u8> has them in the order b, g, r, and RGBA<u8>
\* has r, g, b, a.
RGB(r, g, b) == [kind |-> "RGB", r |-> r, g |-> g, b |-> b]
BGR(r, g, b) == [kind |-> "BGR", r |-> r, g |-> g, b |-> b]
RGBA(r, g, b, a) == [kind |-> "RGBA", r |-> r, g |-> g, b |-> b, a |-> a]

\* pixel.as_ref(): the components as a slice, in memory order.
as_ref(pixel) ==
  CASE pixel.kind = "RGB" -> << pixel.r, pixel.g, pixel.b >>
    [] pixel.kind = "BGR" -> << pixel.b, pixel.g, pixel.r >>
    [] pixel.kind = "RGBA" -> << pixel.r, pixel.g, pixel.b, pixel.a >>

\* lab::Lab::from_rgb(&[r, g, b]) of the lab crate: the conversion is not
\* part of this crate, so its result is the Lab value named by the array it
\* was given.
from_rgb(rgb) ==
  [kind |-> "lab", l |-> << "L*", rgb >>, a |-> << "a*", rgb >>, b |-> << "b*", rgb >>]

\* to_lab of a pixel with every type handing over its slice as_ref().
to_lab_as_ref(impl, pixel) ==
  IF pixel.kind = "ref"
    THEN to_lab(from_rgb(SubSeq(as_ref(pixel.to), 1, 3)))
    ELSE to_lab(from_rgb(SubSeq(as_ref(pixel), 1, 3)))

\* to_lab of a pixel: the impl of lib.rs or of to_lab_impls.rs for its type.
to_lab_pixel(impl, pixel) ==
  CASE impl = "lib" /\ pixel.kind = "RGB" -> to_lab(from_rgb(as_ref(pixel)))
    [] impl = "lib" /\ pixel.kind = "ref" -> to_lab(from_rgb(as_ref(pixel.to)))
    [] impl = "lib" /\ pixel.kind = "RGBA" -> to_lab(from_rgb(SubSeq(as_ref(pixel), 1, 3)))
    [] impl = "to_lab_impls" /\ pixel.kind = "RGB" ->
         to_lab(from_rgb(<< pixel.r, pixel.g, pixel.b >>))
    [] impl = "to_lab_impls" /\ pixel.kind = "BGR" ->
         to_lab(from_rgb(<< pixel.r, pixel.g, pixel.b >>))

\* Channel values, and the pixels made of them with the impl each is
\* converted by.
Channels == {0, 76, 187, 234, 255}
Calls_pixels ==
  UNION {{<< "lib", RGB(c[1], c[2], c[3]) >>,
          << "lib", Ref(RGB(c[1], c[2], c[3])) >>,
          << "lib", RGBA(c[1], c[2], c[3], 0) >>,
          << "lib", RGBA(c[1], c[2], c[3], 128) >>,
          << "lib", RGBA(c[1], c[2], c[3], 255) >>,
          << "to_lab_impls", RGB(c[1], c[2], c[3]) >>,
          << "to_lab_impls", BGR(c[1], c[2], c[3]) >>} :
         c \in Channels \X Channels \X Channels}

\* ------------------------------------------------- examples/deltae.rs
\* A command-line argument (an OsString): its characters, and whether it is
\* valid Unicode.  A character is written as a string; a byte that is not
\* part of a valid character is written "0xFF".
Arg(chars) == [unicode |-> TRUE, chars |-> chars]
ArgNotUnicode(chars) == [unicode |-> FALSE, chars |-> chars]

\* The UTF-8 encoding of a character: one byte for ASCII, two for e-acute.
Utf8(ch) == IF ch = "e-acute" THEN << "0xC3", "0xA9" >> ELSE << ch >>

\* str::as_bytes
RECURSIVE as_bytes(_)
as_bytes(chars) ==
  IF chars = << >> THEN << >> ELSE Utf8(Head(chars)) \o as_bytes(Tail(chars))

Ok(value) == [ok |-> TRUE, value |-> value]
Err(error) == [ok |-> FALSE, error |-> error]

\* char::to_digit(16), -1 for None
HexDigits ==
  << "0", "1", "2", "3", "4", "5", "6", "7", "8", "9", "a", "b", "c", "d",
     "e", "f", "A", "B", "C", "D", "E", "F" >>
to_digit(byte) ==
  IF \E i \in 1..Len(HexDigits) : HexDigits[i] = byte
    THEN LET i == CHOOSE i \in 1..Len(HexDigits) : HexDigits[i] = byte
         IN IF i <= 16 THEN i - 1 ELSE i - 7
    ELSE -1

\* The digits of u32::from_str_radix, most significant first, added to acc.
RECURSIVE from_digits(_, _)
from_digits(bytes, acc) ==
  IF bytes = << >> THEN Ok(acc)
  ELSE IF to_digit(Head(bytes)) < 0 THEN Err("invalid digit found in string")
  ELSE from_digits(Tail(bytes), (acc * 16) + to_digit(Head(bytes)))

\* u32::from_str_radix(src, 16) for src of at most 7 bytes: a leading '+'
\* is skipped, an empty string and a lone sign are errors.
from_str_radix(bytes) ==
  IF bytes = << >> THEN Err("cannot parse integer from empty string")
  ELSE IF bytes = << "+" >> \/ bytes = << "-" >> THEN Err("invalid digit found in string")
  ELSE IF Head(bytes) = "+" THEN from_digits(Tail(bytes), 0)
  ELSE from_digits(bytes, 0)

\* parse without its test for a '+' after the '#'.
parse_signed(arg) ==
  IF ~arg.unicode THEN Err(<< arg, "not valid Unicode" >>)
  ELSE IF Len(as_bytes(arg.chars)) # 7 \/ as_bytes(arg.chars)[1] # "#"
    THEN Err(<< arg, "expected argument in #RRGGBB format" >>)
  ELSE LET r == from_str_radix(Tail(as_bytes(arg.chars)))
       IN IF r.ok THEN r ELSE Err(<< arg, r.error >>)

\* parse(arg)
parse(arg) ==
  IF ~arg.unicode THEN Err(<< arg, "not valid Unicode" >>)
  ELSE IF \/ Len(as_bytes(arg.chars)) # 7
          \/ as_bytes(arg.chars)[1] # "#"
          \/ as_bytes(arg.chars)[2] = "+"
    THEN Err(<< arg, "expected argument in #RRGGBB format" >>)
  ELSE LET r == from_str_radix(Tail(as_bytes(arg.chars)))
       IN IF r.ok THEN r ELSE Err(<< arg, r.error >>)

\* The loop of parse_args from the i-th element of args_os on; st holds
\* argv0, colours and n, and examined, the arguments handed to parse so far.
RECURSIVE parse_args_loop(_, _, _)
parse_args_loop(argv, i, st) ==
  IF i > Len(argv) THEN [st EXCEPT !.returned = FALSE]
  ELSE IF st.n = 0
    THEN parse_args_loop(argv, i + 1, [st EXCEPT !.argv0 = argv[i], !.n = 1])
  ELSE IF st.n < 3
    THEN LET r == parse(argv[i])
             seen == [st EXCEPT !.examined = Append(@, i)]
         IN IF r.ok
              THEN parse_args_loop(argv, i + 1,
                     [seen EXCEPT !.colours[st.n] = r.value, !.n = st.n + 1])
              ELSE [seen EXCEPT !.returned = TRUE, !.msg = r.error]
  ELSE [st EXCEPT !.returned = FALSE]

\* parse_args() with std::env::args_os() yielding argv
parse_args(argv) ==
  LET st == parse_args_loop(argv, 1,
              [argv0 |-> Arg(<< "e", "x", "a", "m", "p", "l", "e" >>),
               colours |-> << 0, 0 >>, n |-> 0, examined |-> << >>,
               returned |-> FALSE, msg |-> << >>])
  IN IF st.returned
       THEN [ok |-> FALSE, error |-> << st.argv0, st.msg >>, examined |-> st.examined]
     ELSE IF st.n # 3
       THEN [ok |-> FALSE, error |-> << st.argv0, "Expected two arguments" >>,
             examined |-> st.examined]
     ELSE [ok |-> TRUE, value |-> st.colours, examined |-> st.examined]

\* Arguments: colours in #RRGGBB format, and arguments that are too short,
\* too long, without '#', signed, with a letter that is no hex digit, with a
\* two-byte character, and not valid Unicode.
Colour000000 == Arg(<< "#", "0", "0", "0", "0", "0", "0" >>)
ColourFFFFFF == Arg(<< "#", "F", "f", "F", "f", "F", "f" >>)
ColourEA4C4C == Arg(<< "#", "e", "A", "4", "c", "4", "C" >>)
Args ==
  {Colour000000, ColourFFFFFF, ColourEA4C4C,
   Arg(<< "#", "1", "2", "3", "4", "5" >>),
   Arg(<< "#", "1", "2", "3", "4", "5", "6", "7" >>),
   Arg(<< "0", "1", "2", "3", "4", "5", "6" >>),
   Arg(<< "#", "+", "1", "2", "3", "4", "5" >>),
   Arg(<< "#", "-", "1", "2", "3", "4", "5" >>),
   Arg(<< "#", "1", "2", "g", "4", "5", "6" >>),
   Arg(<< "#", "e-acute", "1", "2", "3", "4" >>),
   ArgNotUnicode(<< "#", "0xFF", "0", "0", "0", "0", "0" >>)}

\* The command lines: the program's name followed by up to MaxArgs
\* arguments, and the empty one.
MaxArgs == 3
Program == Arg(<< "d", "e", "l", "t", "a", "e" >>)
RECURSIVE ArgLists(_)
ArgLists(n) ==
  IF n = 0 THEN {<< >>}
  ELSE ArgLists(n - 1) \cup {Append(l, a) : l \in ArgLists(n - 1), a \in Args}
Argvs == {<< >>} \cup {<< Program >> \o l : l \in ArgLists(MaxArgs)}

\* s_c, f, t and s_h of diff_impl for a reference of the given a*, b*.
cmc_scales(reference_a, reference_b) ==
  LET c_1 == hypot(reference_a, reference_b)
      s_c == cmc_s_c(c_1)
      f == cmc_f(c_1)
      t == get_t(reference_a, reference_b)
  IN InOrder(<< c_1, s_c, f, t >>,
             [c_1 |-> c_1, s_c |-> s_c, f |-> f, t |-> t, s_h |-> cmc_s_h(s_c, f, t)])

\* Reference lightnesses: the whole numbers from 0 to 100, 15.5, the f32
\* next below and the two next above 16, and two neighbouring f32 near
\* 16.00089.
ScaleLightnesses ==
  {FromInt(i) : i \in 0..100}
    \cup {Dec(155, 1), Fin(0, 16777215, -20), Fin(0, 8388609, -19), Fin(0, 8388610, -19),
          Fin(0, 8389074, -19), Fin(0, 8389075, -19)}
\* References (a*, b*): a grid of directions at chroma steps of 1, 40 and
\* 300, and chromas of 10^5 and 10^10.
ScaleReferences ==
  {<< FromInt(k * i), FromInt(k * j) >> :
     i \in (0 - HueMax)..HueMax, j \in (0 - HueMax)..HueMax, k \in {1, 40, 300}}
    \cup {<< FromInt(100000), FromInt(-100000) >>,
          << FMul(FromInt(100000), FromInt(100000)), Zero(0) >>}

\* The arguments of each kind of call the caller makes.
Inputs(f) ==
  CASE f = "cie76::diff" -> Pairs_cie76
    [] f = "cie94::diff" -> Calls_cie94
    [] f = "cmc::diff" -> Calls_cmc
    [] f = "cie00::diff" -> Pairs
    [] f = "cie00::diff_with_params" -> Calls_cie00
    [] f = "represented" -> Calls_represented
    [] f = "threads" -> Calls_threads
    [] f = "get_h_prime" -> HueArgs
    [] f = "get_delta_h_prime" -> Calls_get_delta_h_prime
    [] f = "upcase_h_prime_bar" -> Hues \X Hues
    [] f = "get_t" -> Calls_get_t
    [] f = "lab_from_grey" -> Calls_lab_from_grey
    [] f = "cmc_s_l" -> ScaleLightnesses
    [] f = "cmc_scales" -> ScaleReferences

\* -------------------------------------------------------------- dispatch
\* The function named a[1] applied to the arguments after it.
Call(a) ==
  CASE a[1] = "round_pack" -> round_pack(a[2], a[3], a[4], a[5])
    [] a[1] = "f32_mul" -> f32_mul(a[2], a[3])
    [] a[1] = "f32_add" -> f32_add(a[2], a[3])
    [] a[1] = "f32_sub" -> f32_sub(a[2], a[3])
    [] a[1] = "f32_div" -> f32_div(a[2], a[3])
    [] a[1] = "f32_from_int" -> f32_from_int(a[2])
    [] a[1] = "f32_sqrt" -> f32_sqrt(a[2])
    [] a[1] = "f32_literal" -> f32_literal(a[2], a[3])
    [] a[1] = "f32_scalb" -> f32_scalb(a[2], a[3])
    [] a[1] = "f32_powi" -> f32_powi(a[2], a[3])
    [] a[1] = "f32_sin" -> f32_sin(a[2])
    [] a[1] = "f32_cos" -> f32_cos(a[2])
    [] a[1] = "f32_exp" -> f32_exp(a[2])
    [] a[1] = "f32_atan2" -> f32_atan2(a[2], a[3])
    [] a[1] = "cie76::diff" -> cie76_diff(a[2], a[3])
    [] a[1] = "cie94::diff" -> cie94_diff(a[2], a[3], a[4])
    [] a[1] = "cmc::diff" -> cmc_diff(a[2], a[3], a[4])
    [] a[1] = "cie00::diff" -> cie00_diff(a[2], a[3])
    [] a[1] = "cie00::diff_with_params" -> diff_with_params(a[2], a[3], a[4])
    [] a[1] = "get_h_prime" -> get_h_prime(a[2], a[3])
    [] a[1] = "get_delta_h_prime" -> get_delta_h_prime(a[2], a[3], a[4], a[5])
    [] a[1] = "upcase_h_prime_bar" -> get_upcase_h_prime_bar(a[2], a[3])
    [] a[1] = "get_t" -> get_t(a[2], a[3])
    [] a[1] = "lab_from_grey" -> lab_from_grey(a[2], a[3])
    [] a[1] = "cmc_s_l" -> cmc_s_l(a[2])
    [] a[1] = "cmc_scales" -> cmc_scales(a[2], a[3])
    [] a[1] = "inputs" -> Inputs(a[2])

\* ------------------------------------------------------- the state machine
\* A caller computes one difference at a time: formula names the function
\* called, colour_1 and colour_2 its colour arguments (the reference first
\* for CIE94 and CMC), ksub its weights and result the value returned.
\* formula, colour_1, colour_2, ksub and result are the call of a
\* single-threaded caller.  calls[t] is the call thread t has made, as the
\* thread itself holds it, and stack[t] is the frame of the diff function
\* running on the stack of thread t.
VARIABLES formula, colour_1, colour_2, ksub, result, calls, stack

vars == << formula, colour_1, colour_2, ksub, result, calls, stack >>

NoValue == << >>

\* Number of threads calling the diff functions.
NThreads == 2
Threads == 1..NThreads
NoCall == [formula |-> "none"]
Idle == [pc |-> "idle", args |-> NoCall, result |-> NoValue]

Init ==
  /\ formula = "none"
  /\ colour_1 = NoValue
  /\ colour_2 = NoValue
  /\ ksub = NoValue
  /\ result = NoValue
  /\ calls = [t \in Threads |-> Idle]
  /\ stack = [t \in Threads |-> NoCall]

\* cie76::diff(colour_1, colour_2)
Cie76Diff ==
  /\ formula = "none"
  /\ UNCHANGED << calls, stack >>
  /\ \E p \in Call(<< "inputs", "cie76::diff" >>) :
       /\ formula' = "cie76"
       /\ colour_1' = Tuple(p[1][1], p[1][2], p[1][3])
       /\ colour_2' = Tuple(p[2][1], p[2][2], p[2][3])
       /\ ksub' = NoValue
       /\ result' = Call(<< "cie76::diff", colour_1', colour_2' >>)

\* cie94::diff(reference, colour, ksub)
Cie94Diff ==
  /\ formula = "none"
  /\ UNCHANGED << calls, stack >>
  /\ \E call \in Call(<< "inputs", "cie94::diff" >>) :
       /\ formula' = "cie94"
       /\ colour_1' = Tuple(call[1][1][1], call[1][1][2], call[1][1][3])
       /\ colour_2' = Tuple(call[1][2][1], call[1][2][2], call[1][2][3])
       /\ ksub' = call[2]
       /\ result' = Call(<< "cie94::diff", colour_1', colour_2', ksub' >>)

\* cmc::diff(reference, colour, lc)
CmcDiff ==
  /\ formula = "none"
  /\ UNCHANGED << calls, stack >>
  /\ \E call \in Call(<< "inputs", "cmc::diff" >>) :
       /\ formula' = "cmc"
       /\ colour_1' = Tuple(call[1][1][1], call[1][1][2], call[1][1][3])
       /\ colour_2' = Tuple(call[1][2][1], call[1][2][2], call[1][2][3])
       /\ ksub' = call[2]
       /\ result' = Call(<< "cmc::diff", colour_1', colour_2', ksub' >>)

\* cie00::diff(color_1, color_2)
Cie00Diff ==
  /\ formula = "none"
  /\ UNCHANGED << calls, stack >>
  /\ \E p \in Call(<< "inputs", "cie00::diff" >>) :
       /\ formula' = "cie00"
       /\ colour_1' = from_tripple(p[1])
       /\ colour_2' = from_tripple(p[2])
       /\ ksub' = KSubParams_default
       /\ result' = Call(<< "cie00::diff", colour_1', colour_2' >>)

\* cie00::diff_with_params(color_1, color_2, ksub)
Cie00DiffWithParams ==
  /\ formula = "none"
  /\ UNCHANGED << calls, stack >>
  /\ \E call \in Call(<< "inputs", "cie00::diff_with_params" >>) :
       /\ formula' = "cie00"
       /\ colour_1' = from_tripple(call[1][1])
       /\ colour_2' = from_tripple(call[1][2])
       /\ ksub' = call[2]
       /\ result' = Call(<< "cie00::diff_with_params", colour_1', colour_2', ksub' >>)

\* The caller takes the result and is ready for its next call.
Return ==
  /\ formula # "none"
  /\ UNCHANGED << calls, stack >>
  /\ formula' = "none"
  /\ colour_1' = NoValue
  /\ colour_2' = NoValue
  /\ ksub' = NoValue
  /\ result' = NoValue

Next == Cie76Diff \/ Cie94Diff \/ CmcDiff \/ Cie00Diff \/ Cie00DiffWithParams \/ Return

Spec == Init /\ [][Next]_vars

Next_cie76 == Cie76Diff \/ Return
Spec_cie76 == Init /\ [][Next_cie76]_vars

Next_cie94 == Cie94Diff \/ Return
Spec_cie94 == Init /\ [][Next_cie94]_vars

Next_cmc == CmcDiff \/ Return
Spec_cmc == Init /\ [][Next_cmc]_vars

Next_cie00 == Cie00Diff \/ Cie00DiffWithParams \/ Return
Spec_cie00 == Init /\ [][Next_cie00]_vars

\* cie76::diff(colour_1, colour_2) with each argument in any representation
Cie76DiffOf ==
  /\ formula = "none"
  /\ UNCHANGED << calls, stack >>
  /\ \E call \in Call(<< "inputs", "represented" >>) :
       /\ formula' = "cie76"
       /\ colour_1' = call[1]
       /\ colour_2' = call[2]
       /\ ksub' = NoValue
       /\ result' = Call(<< "cie76::diff", colour_1', colour_2' >>)

\* cie94::diff(reference, colour, Params::default()) likewise
Cie94DiffOf ==
  /\ formula = "none"
  /\ UNCHANGED << calls, stack >>
  /\ \E call \in Call(<< "inputs", "represented" >>) :
       /\ formula' = "cie94"
       /\ colour_1' = call[1]
       /\ colour_2' = call[2]
       /\ ksub' = Params_default
       /\ result' = Call(<< "cie94::diff", colour_1', colour_2', ksub' >>)

\* cmc::diff(reference, colour, LC21) likewise
CmcDiffOf ==
  /\ formula = "none"
  /\ UNCHANGED << calls, stack >>
  /\ \E call \in Call(<< "inputs", "represented" >>) :
       /\ formula' = "cmc"
       /\ colour_1' = call[1]
       /\ colour_2' = call[2]
       /\ ksub' = LC21
       /\ result' = Call(<< "cmc::diff", colour_1', colour_2', ksub' >>)

Next_to_lab == Cie76DiffOf \/ Cie94DiffOf \/ CmcDiffOf \/ Return
Spec_to_lab == Init /\ [][Next_to_lab]_vars

\* ------------------------------------------------------- hue functions
\* The private functions of the hue terms, called on their own; ksub holds
\* the arguments of the call.

\* cie00::get_h_prime(x, y)
GetHPrime ==
  /\ formula = "none"
  /\ UNCHANGED << calls, stack >>
  /\ \E args \in Call(<< "inputs", "get_h_prime" >>) :
       /\ formula' = "get_h_prime"
       /\ colour_1' = NoValue
       /\ colour_2' = NoValue
       /\ ksub' = args
       /\ result' = Call(<< "get_h_prime", args[1], args[2] >>)

\* cie00::get_delta_h_prime(c1, c2, h_prime_1, h_prime_2)
GetDeltaHPrime ==
  /\ formula = "none"
  /\ UNCHANGED << calls, stack >>
  /\ \E args \in Call(<< "inputs", "get_delta_h_prime" >>) :
       /\ formula' = "get_delta_h_prime"
       /\ colour_1' = NoValue
       /\ colour_2' = NoValue
       /\ ksub' = args
       /\ result' = Call(<< "get_delta_h_prime", args[1], args[2], args[3], args[4] >>)

\* upcase_h_prime_bar of cie00::diff_with_params, from h_prime_1 and h_prime_2
GetUpcaseHPrimeBar ==
  /\ formula = "none"
  /\ UNCHANGED << calls, stack >>
  /\ \E args \in Call(<< "inputs", "upcase_h_prime_bar" >>) :
       /\ formula' = "upcase_h_prime_bar"
       /\ colour_1' = NoValue
       /\ colour_2' = NoValue
       /\ ksub' = args
       /\ result' = Call(<< "upcase_h_prime_bar", args[1], args[2] >>)

\* cmc::get_t(a, b)
GetT ==
  /\ formula = "none"
  /\ UNCHANGED << calls, stack >>
  /\ \E args \in Call(<< "inputs", "get_t" >>) :
       /\ formula' = "get_t"
       /\ colour_1' = NoValue
       /\ colour_2' = NoValue
       /\ ksub' = args
       /\ result' = Call(<< "get_t", args[1], args[2] >>)

Next_hue == GetHPrime \/ GetDeltaHPrime \/ GetUpcaseHPrimeBar \/ GetT \/ Return
Spec_hue == Init /\ [][Next_hue]_vars

\* ------------------------------------------------------------- grey levels
\* Gray<u8>::to_lab(), that is lab_from_grey(grey)
LabFromGrey ==
  /\ formula = "none"
  /\ UNCHANGED << calls, stack >>
  /\ \E args \in Call(<< "inputs", "lab_from_grey" >>) :
       /\ formula' = "lab_from_grey"
       /\ colour_1' = NoValue
       /\ colour_2' = NoValue
       /\ ksub' = args
       /\ result' = Call(<< "lab_from_grey", args[1], args[2] >>)

Next_grey == LabFromGrey \/ Return
Spec_grey == Init /\ [][Next_grey]_vars

\* ------------------------------------------------------------------ pixels
\* pixel.to_lab() for a pixel of the rgb crate
ToLabPixel ==
  /\ formula = "none"
  /\ UNCHANGED << calls, stack >>
  /\ \E call \in Calls_pixels :
       /\ formula' = "to_lab"
       /\ colour_1' = call[2]
       /\ colour_2' = NoValue
       /\ ksub' = call[1]
       /\ result' = to_lab_pixel(call[1], call[2])

Next_pixel == ToLabPixel \/ Return
Spec_pixel == Init /\ [][Next_pixel]_vars

\* ------------------------------------------------------- example program
\* parse(arg)
Parse ==
  /\ formula = "none"
  /\ UNCHANGED << calls, stack >>
  /\ \E arg \in Args :
       /\ formula' = "parse"
       /\ colour_1' = NoValue
       /\ colour_2' = NoValue
       /\ ksub' = arg
       /\ result' = parse(arg)

\* parse_args()
ParseArgs ==
  /\ formula = "none"
  /\ UNCHANGED << calls, stack >>
  /\ \E argv \in Argvs :
       /\ formula' = "parse_args"
       /\ colour_1' = NoValue
       /\ colour_2' = NoValue
       /\ ksub' = argv
       /\ result' = parse_args(argv)

Next_cli == Parse \/ ParseArgs \/ Return
Spec_cli == Init /\ [][Next_cli]_vars

\* -------------------------------------------------------- CMC scale factors
\* s_l of cmc::diff_impl for a reference lightness
CmcLightnessScale ==
  /\ formula = "none"
  /\ UNCHANGED << calls, stack >>
  /\ \E reference_l \in Call(<< "inputs", "cmc_s_l" >>) :
       /\ formula' = "cmc_s_l"
       /\ colour_1' = NoValue
       /\ colour_2' = NoValue
       /\ ksub' = reference_l
       /\ result' = Call(<< "cmc_s_l", reference_l >>)

\* s_c, f, t and s_h of cmc::diff_impl for a reference a*, b*
CmcChromaHueScales ==
  /\ formula = "none"
  /\ UNCHANGED << calls, stack >>
  /\ \E reference \in Call(<< "inputs", "cmc_scales" >>) :
       /\ formula' = "cmc_scales"
       /\ colour_1' = NoValue
       /\ colour_2' = NoValue
       /\ ksub' = reference
       /\ result' = Call(<< "cmc_scales", reference[1], reference[2] >>)

Next_scale == CmcLightnessScale \/ CmcChromaHueScales \/ Return
Spec_scale == Init /\ [][Next_scale]_vars

\* ---------------------------------------------------------------- threads
\* The diff function of frame f applied to the arguments in the frame.
Apply(f) ==
  CASE f.formula = "cie76" -> Call(<< "cie76::diff", f.colour_1, f.colour_2 >>)
    [] f.formula = "cie94" -> Call(<< "cie94::diff", f.colour_1, f.colour_2, f.ksub >>)
    [] f.formula = "cmc" -> Call(<< "cmc::diff", f.colour_1, f.colour_2, f.ksub >>)
    [] f.formula = "cie00" -> Call(<< "cie00::diff_with_params", f.colour_1, f.colour_2, f.ksub >>)
    [] f.formula = "none" -> NoValue

\* One frame for all threads, as if the parameters were in a static.
FrameShared(t) == 1

\* The parameters and locals of a call live on the calling thread's stack.
FrameOf(t) == t

\* Thread t calls a diff function: the arguments are passed by value.
ThreadCall(t) ==
  /\ calls[t].pc = "idle"
  /\ \E c \in Call(<< "inputs", "threads" >>) :
       /\ calls' = [calls EXCEPT ![t] = [pc |-> "called", args |-> c, result |-> NoValue]]
       /\ stack' = [stack EXCEPT ![FrameOf(t)] = c]
  /\ UNCHANGED << formula, colour_1, colour_2, ksub, result >>

\* The function computes the difference from its parameters and returns.
ThreadReturn(t) ==
  /\ calls[t].pc = "called"
  /\ calls' = [calls EXCEPT ![t].pc = "returned",
                            ![t].result = Apply(stack[FrameOf(t)])]
  /\ stack' = [stack EXCEPT ![FrameOf(t)] = NoCall]
  /\ UNCHANGED << formula, colour_1, colour_2, ksub, result >>

\* The thread takes the result and is ready for its next call.
ThreadDone(t) ==
  /\ calls[t].pc = "returned"
  /\ calls' = [calls EXCEPT ![t] = Idle]
  /\ UNCHANGED << formula, colour_1, colour_2, ksub, result, stack >>

Next_threads == \E t \in Threads : ThreadCall(t) \/ ThreadReturn(t) \/ ThreadDone(t)
Spec_threads == Init /\ [][Next_threads]_vars

\* cie00::tests::round
round(val) == FDiv(FRound(FMul(val, Dec(10000, 0))), Dec(10000, 0))

\* testutil::EPSILON (not under miri)
EPSILON == Dec(1, 3)

\* approx::abs_diff_eq!(x, y, epsilon = eps)
abs_diff_eq(x, y, eps) == FLe(FAbs(FSub(x, y)), eps)

\* ------------------------------------------------------------ properties
\* The two colours of the call are the same colour.
SameColour == to_lab(colour_1) = to_lab(colour_2)

\* Every coordinate of the colour c is at most n in magnitude.
InRange(c, n) == \A i \in 1..3 : FLe(FAbs(c[i]), FromInt(n))

\* The parameter presets of the formula called (none for CIE76).
Presets ==
  CASE formula = "cie76" -> {NoValue}
    [] formula = "cie94" -> {Params_graphic, Params_textiles}
    [] formula = "cmc" -> {LC11, LC21, LC12}
    [] formula = "cie00" -> {KSubParams_default, KSubParams_yang2012}

\* C1 (as amended): for every colour c whose coordinates are at most 10^5
\* in magnitude and every parameter preset, diff(c, c) is exactly 0, for
\* each of the four formulas.
C1_ZeroProperty ==
  (/\ formula # "none"
   /\ SameColour
   /\ ksub \in Presets
   /\ InRange(to_lab(colour_1), 100000))
    => IsZero(result)

\* A chromatic colour at the rim of that range, compared with itself by
\* CIEDE2000 under the yang2012 weights.
C1_Witness ==
  /\ formula = "cie00"
  /\ ksub = KSubParams_yang2012
  /\ SameColour
  /\ to_lab(colour_1) \in WideColours
  /\ IsZero(result)

\* C1 as stated: diff(c, c) is exactly 0 for every colour c.
C1_ZeroForEveryColour ==
  (formula # "none" /\ SameColour /\ ksub \in Presets) => IsZero(result)

\* The two values are equal as f32 (==), or both are NaN.
SameResult(x, y) == FEq(x, y) \/ (IsNaN(x) /\ IsNaN(y))

\* cie00::diff_with_params of the call's colours in the other order.
cie00_swapped == Call(<< "cie00::diff_with_params", colour_2, colour_1, ksub >>)

\* C2 (as amended): for all colours a, b and every KSubParams k,
\* cie00::diff_with_params(a, b, k) and cie00::diff_with_params(b, a, k)
\* are exactly equal, or both NaN.
C2_Cie00Symmetric ==
  formula = "cie00" => SameResult(result, cie00_swapped)

\* Two different colours under the yang2012 weights, at a non-zero
\* distance that is the same in both orders.
C2_Witness ==
  /\ formula = "cie00"
  /\ ksub = KSubParams_yang2012
  /\ ~SameColour
  /\ ~IsZero(result)
  /\ FEq(result, cie00_swapped)

\* C2 as stated: the two orders give equal values (==) for all colours
\* and weights.
C2_Cie00AlwaysEqual ==
  formula = "cie00" => FEq(result, cie00_swapped)

\* cie76::diff of the call's colours in the other order.
cie76_swapped == Call(<< "cie76::diff", colour_2, colour_1 >>)

\* C3: for all colours a, b, cie76::diff(a, b) equals cie76::diff(b, a)
\* exactly.
C3_Cie76Symmetric ==
  formula = "cie76" => FEq(result, cie76_swapped)

\* Two colours that differ in lightness, at the same non-zero distance in
\* both orders.
C3_Witness ==
  /\ formula = "cie76"
  /\ ~FEq(to_lab(colour_1)[1], to_lab(colour_2)[1])
  /\ ~IsZero(result)
  /\ FEq(result, cie76_swapped)

\* The call's colours are the colours p and q, in this order.
CalledWith(p, q) == to_lab(colour_1) = p /\ to_lab(colour_2) = q

\* cie94::diff of the call's colours in the other order.
cie94_swapped == Call(<< "cie94::diff", colour_2, colour_1, ksub >>)

\* C4: CIE94 is not symmetric: with the graphic preset, the reference
\* (50, 0, 0) and the colour (50, -1, 2) are 2.2361 apart, and 2.0316 apart
\* with the two exchanged (the denominators use the chroma of the
\* reference, 0 one way and sqrt(5) the other).
C4_Cie94Asymmetric ==
  (/\ formula = "cie94"
   /\ ksub = Params_graphic
   /\ CalledWith(Row1(8), Row2(8)))
    => /\ round(result) = Dec(22361, 4)
       /\ round(cie94_swapped) = Dec(20316, 4)
       /\ ~FEq(result, cie94_swapped)

\* The call cie94::diff((50, 0, 0), (50, -1, 2), graphic), whose result
\* differs from that of the exchanged call.
C4_Witness ==
  /\ formula = "cie94"
  /\ ksub = Params_graphic
  /\ CalledWith(Row1(8), Row2(8))
  /\ ~FEq(result, cie94_swapped)

\* cmc::diff of the call's colours in the other order.
cmc_swapped == Call(<< "cmc::diff", colour_2, colour_1, ksub >>)

\* C5: CMC l:c is not symmetric: with l:c = 1:1, the reference (50, 0, 0)
\* and the colour (50, -1, 2) are 3.5048 apart, and 2.8793 apart with the
\* two exchanged (S_L, S_C, F and T come from the reference alone).
C5_CmcAsymmetric ==
  (/\ formula = "cmc"
   /\ ksub = LC11
   /\ CalledWith(Row1(8), Row2(8)))
    => /\ round(result) = Dec(35048, 4)
       /\ round(cmc_swapped) = Dec(28793, 4)
       /\ ~FEq(result, cmc_swapped)

\* The call cmc::diff((50, 0, 0), (50, -1, 2), (1, 1)), whose result
\* differs from that of the exchanged call.
C5_Witness ==
  /\ formula = "cmc"
  /\ ksub = LC11
  /\ CalledWith(Row1(8), Row2(8))
  /\ ~FEq(result, cmc_swapped)

\* x is a whole number of magnitude at most n.
IsWhole(x, n) ==
  IsFinite(x) /\ FLe(FAbs(x), FromInt(n)) /\ FEq(FromInt(FloorInt(x)), x)

\* The coordinates of both colours of the call are whole numbers of
\* magnitude at most 1000.
WholeCall ==
  \A i \in 1..3 : IsWhole(to_lab(colour_1)[i], 1000) /\ IsWhole(to_lab(colour_2)[i], 1000)

\* The difference of the i-th coordinates of a whole-number call, as an
\* integer.
IntDelta(i) == FloorInt(to_lab(colour_1)[i]) - FloorInt(to_lab(colour_2)[i])

\* dL^2 + da^2 + db^2 of a whole-number call, in integer arithmetic.
IntSquares ==
  IntDelta(1) * IntDelta(1) + IntDelta(2) * IntDelta(2) + IntDelta(3) * IntDelta(3)

\* The i-th row of cie76::tests::TESTS is the call made.
Cie76Row(i) ==
  CalledWith(<< FromInt(TESTS_cie76[i][2]), FromInt(TESTS_cie76[i][3]),
                FromInt(TESTS_cie76[i][4]) >>,
             << FromInt(TESTS_cie76[i][5]), FromInt(TESTS_cie76[i][6]),
                FromInt(TESTS_cie76[i][7]) >>)

\* C6: cie76::diff is the Euclidean norm of the difference of the two
\* triples: for whole-number coordinates it is the square root, correctly
\* rounded, of the sum of squares computed in integers, and the root
\* itself when that sum is a perfect square; the six rows of the crate's
\* table give exactly 5, 5, 5, 5, 5 and 97.
C6_Cie76Euclidean ==
  formula = "cie76" =>
    /\ \A i \in 1..Len(TESTS_cie76) :
         Cie76Row(i) => FEq(result, FromInt(TESTS_cie76[i][1]))
    /\ WholeCall =>
         LET sum == IntSquares
         IN /\ FEq(result, FSqrt(FromInt(sum)))
            /\ \A n \in 0..3500 : n * n = sum => FEq(result, FromInt(n))

\* The call cie76::diff((0, 0, 0), (0, 65, -72)), which returned 97.
C6_Witness ==
  /\ formula = "cie76"
  /\ Cie76Row(6)
  /\ IntSquares = 97 * 97
  /\ FEq(result, FromInt(97))

\* cie76::diff of the colours p and q (as tuples).
cie76_of(p, q) ==
  Call(<< "cie76::diff", Tuple(p[1], p[2], p[3]), Tuple(q[1], q[2], q[3]) >>)

\* 2^60 and 2^-60
TwoTo60 == FScalb(One, 60)
TwoToMinus60 == FScalb(One, -60)

\* The coordinates of p and q are at most 2^60 in magnitude and each
\* differs by nothing or by at least 2^-60: no square of a difference
\* overflows or underflows.
NoFlow(p, q) ==
  \A i \in 1..3 :
    /\ IsFinite(p[i]) /\ FLe(FAbs(p[i]), TwoTo60)
    /\ IsFinite(q[i]) /\ FLe(FAbs(q[i]), TwoTo60)
    /\ p[i] = q[i] \/ FGe(FAbs(FSub(p[i], q[i])), TwoToMinus60)

\* 1 + 2^-20
RoundingSlack == FAdd(One, FScalb(One, -20))

\* C7 (as amended): for all colours a, b, c whose coordinates are at most
\* 2^60 in magnitude and differ by nothing or by at least 2^-60, the
\* triangle inequality holds up to rounding: cie76::diff(a, c) <=
\* (cie76::diff(a, b) + cie76::diff(b, c)) * (1 + 2^-20), evaluated in f32.
C7_TriangleUpToRounding ==
  (formula = "cie76" /\ NoFlow(to_lab(colour_1), to_lab(colour_2))) =>
    \A c \in GridColours :
      (NoFlow(to_lab(colour_1), c) /\ NoFlow(to_lab(colour_2), c))
        => FLe(cie76_of(to_lab(colour_1), c),
               FMul(FAdd(result, cie76_of(to_lab(colour_2), c)), RoundingSlack))

\* Three colours on a line for which the distance from end to end exceeds
\* the f32 sum of the two parts, but by less than the rounding allowance.
C7_Witness ==
  /\ formula = "cie76"
  /\ ~SameColour
  /\ NoFlow(to_lab(colour_1), to_lab(colour_2))
  /\ \E c \in GridColours :
       /\ FGt(cie76_of(to_lab(colour_1), c),
              FAdd(result, cie76_of(to_lab(colour_2), c)))
       /\ FLe(cie76_of(to_lab(colour_1), c),
              FMul(FAdd(result, cie76_of(to_lab(colour_2), c)), RoundingSlack))

\* C7 as stated: cie76::diff(a, c) <= cie76::diff(a, b) + cie76::diff(b, c)
\* for all colours a, b, c.
C7_TriangleInequality ==
  formula = "cie76" =>
    \A c \in GridColours :
      FLe(cie76_of(to_lab(colour_1), c),
          FAdd(result, cie76_of(to_lab(colour_2), c)))

\* The coordinates of both colours of the call are finite.
FiniteCall ==
  \A i \in 1..3 : IsFinite(to_lab(colour_1)[i]) /\ IsFinite(to_lab(colour_2)[i])

\* The two triples of the call are identical, coordinate by coordinate.
Identical == \A i \in 1..3 : FEq(to_lab(colour_1)[i], to_lab(colour_2)[i])

\* 2^-75, whose square 2^-150 is the greatest power of two that rounds to 0.
TwoToMinus75 == FScalb(One, -75)

\* Some coordinate of the two colours differs by more than 2^-75.
FarApart ==
  \E i \in 1..3 :
    FGt(FAbs(FSub(to_lab(colour_1)[i], to_lab(colour_2)[i])), TwoToMinus75)

\* C8 (as amended): for all finite colours a, b, cie76::diff(a, b) is
\* never negative and never NaN; it is zero if the two triples are
\* identical and not zero if some coordinate differs by more than 2^-75.
C8_Cie76Definite ==
  (formula = "cie76" /\ FiniteCall) =>
    /\ ~IsNaN(result)
    /\ FGe(result, Zero(0))
    /\ Identical => IsZero(result)
    /\ FarApart => ~IsZero(result)

\* Two colours 1.5 * 2^-75 apart in a*, at a distance that is not zero.
C8_Witness ==
  /\ formula = "cie76"
  /\ FiniteCall
  /\ FarApart
  /\ FLt(FAbs(FSub(to_lab(colour_1)[2], to_lab(colour_2)[2])), FScalb(One, -74))
  /\ ~IsZero(result)
  /\ FGe(result, Zero(0))

\* C8 as stated: never negative, never NaN, and zero if and only if the
\* two triples are identical.
C8_ZeroIffIdentical ==
  (formula = "cie76" /\ FiniteCall) =>
    /\ ~IsNaN(result)
    /\ FGe(result, Zero(0))
    /\ IsZero(result) <=> Identical

\* The i-th row of the table is the call made, or (exchanged) the i-th row
\* with its two colours exchanged.
TableCall(i, exchanged) ==
  IF exchanged THEN CalledWith(TableRows[i][2], TableRows[i][1])
  ELSE CalledWith(TableRows[i][1], TableRows[i][2])

\* The result, rounded to 4 decimal places, is within EPSILON of want
\* (in units of 0.0001).
Reproduces(want) == abs_diff_eq(Dec(want, 4), round(result), EPSILON)

\* C9: for each of the 34 rows of the Sharma/Wu/Dalal table, cie00::diff
\* (default weights, both argument orders), cie94::diff with the graphic
\* preset and cmc::diff with l:c = 1:1 return the tabulated value to within
\* 0.001 after rounding to 4 decimal places.
C9_ReferenceTable ==
  /\ (formula = "cie00" /\ ksub = KSubParams_default) =>
       \A i \in Rows :
         (TableCall(i, FALSE) \/ TableCall(i, TRUE)) => Reproduces(WANT_cie00[i])
  /\ (formula = "cie94" /\ ksub = Params_graphic) =>
       \A i \in Rows : TableCall(i, FALSE) => Reproduces(WANT_cie94[i])
  /\ (formula = "cmc" /\ ksub = LC11) =>
       \A i \in Rows : TableCall(i, FALSE) => Reproduces(WANT_cmc[i])

\* cie00::diff((50, 2.6772, -79.7751), (50, 0, -82.7485)), which rounds to
\* 2.0425.
C9_Witness ==
  /\ formula = "cie00"
  /\ ksub = KSubParams_default
  /\ TableCall(2, FALSE)
  /\ round(result) = Dec(20425, 4)
  /\ WANT_cie00[2] = 20425

\* One of the three weights of the call is exactly zero.
ZeroWeight == IsZero(ksub.l) \/ IsZero(ksub.c) \/ IsZero(ksub.h)

\* C10: with any one weight of CIEDE2000 (KSubParams l, c or h) or of CIE94
\* (Params l, c or h) set to exactly zero, diff of any two finite colours
\* divides by zero and returns an infinite distance.
C10_ZeroWeightInfinite ==
  (formula \in {"cie00", "cie94"} /\ FiniteCall /\ ZeroWeight) =>
    result = Inf(0)

\* The quantity under the root of the hue term, da^2 + db^2 - dC^2, as
\* diff_impl evaluates it for the call's colours.
HueRadicand ==
  LET reference == to_lab(colour_1)
      colour == to_lab(colour_2)
      delta_a == FSub(reference[2], colour[2])
      delta_b == FSub(reference[3], colour[3])
      delta_c == FSub(hypot(reference[2], reference[3]), hypot(colour[2], colour[3]))
  IN FSub(FAdd(FPowi(delta_a, 2), FPowi(delta_b, 2)), FPowi(delta_c, 2))

\* C11: in cie94::diff and cmc::diff the hue term is the root of
\* da^2 + db^2 - dC^2 without clamping: whenever that quantity evaluates to
\* a negative number the returned difference is NaN, never a value computed
\* with the hue term replaced by zero.
C11_NegativeHueIsNaN ==
  (formula \in {"cie94", "cmc"} /\ FLt(HueRadicand, Zero(0))) => IsNaN(result)

\* Two colours of one hue, (53, 3, 3) and (55, 5, 5): the rounded chroma
\* difference squared exceeds da^2 + db^2, and cie94::diff returns NaN.
C11_Witness ==
  /\ formula = "cie94"
  /\ CalledWith(<< FromInt(53), FromInt(3), FromInt(3) >>,
                << FromInt(55), FromInt(5), FromInt(5) >>)
  /\ FLt(HueRadicand, Zero(0))
  /\ IsNaN(result)

\* The three numbers a representation holds, in the order L*, a*, b*.
Held(c) ==
  CASE c.kind = "tuple" -> << c.t[1], c.t[2], c.t[3] >>
    [] c.kind = "array" -> << c.v[0], c.v[1], c.v[2] >>
    [] c.kind = "lab" -> << c.l, c.a, c.b >>
Coordinates(c) == IF c.kind = "ref" THEN Held(c.to) ELSE Held(c)

\* The formula of the call applied to the same two triples as plain tuples.
DiffOfTuples ==
  LET p == Coordinates(colour_1)
      q == Coordinates(colour_2)
      t1 == Tuple(p[1], p[2], p[3])
      t2 == Tuple(q[1], q[2], q[3])
  IN CASE formula = "cie76" -> Call(<< "cie76::diff", t1, t2 >>)
       [] formula = "cie94" -> Call(<< "cie94::diff", t1, t2, ksub >>)
       [] formula = "cmc" -> Call(<< "cmc::diff", t1, t2, ksub >>)

\* C12: to_lab of a tuple, a reference to it, an array, a reference to it
\* and a lab::Lab (or a reference to it) returns exactly the (L, a, b) it
\* holds, and cie76::diff, cie94::diff and cmc::diff return the same value
\* whichever representation each argument comes in.
C12_RepresentationIndependent ==
  formula \in {"cie76", "cie94", "cmc"} =>
    /\ to_lab(colour_1) = Coordinates(colour_1)
    /\ to_lab(colour_2) = Coordinates(colour_2)
    /\ result = DiffOfTuples

\* cmc::diff of an array and a reference to a lab::Lab gives what it gives
\* for the two tuples.
C12_Witness ==
  /\ formula = "cmc"
  /\ colour_1.kind = "array"
  /\ colour_2.kind = "ref" /\ colour_2.to.kind = "lab"
  /\ to_lab(colour_1) = TableRows[17][1]
  /\ IsFinite(result) /\ ~IsZero(result)
  /\ result = DiffOfTuples

\* The binary32 values of the documented weights: 1.0 = 0x3f800000,
\* 2.0 = 0x40000000, 4.0 = 0x40800000, 0.045 = 0x3d3851ec,
\* 0.015 = 0x3c75c28f, 0.048 = 0x3d449ba6, 0.014 = 0x3c656042 and
\* 0.65 = 0x3f266666.
Documented ==
  [one |-> Fin(0, 8388608, -23), two |-> Fin(0, 8388608, -22),
   four |-> Fin(0, 8388608, -21), d045 |-> Fin(0, 12079596, -28),
   d015 |-> Fin(0, 16106127, -30), d048 |-> Fin(0, 12884902, -28),
   d014 |-> Fin(0, 15032386, -30), d65 |-> Fin(0, 10905190, -24)]

\* C14: the preset constructors return the documented constants:
\* Params::default() = Params::graphic() = (1.0, 0.045, 0.015),
\* Params::textiles() = (2.0, 0.048, 0.014), KSubParams::default() =
\* (1.0, 1.0, 1.0), KSubParams::yang2012() = (0.65, 1.0, 4.0), LC11 = (1, 1),
\* LC21 = (2, 1), and cie00::diff(a, b) is
\* diff_with_params(a, b, KSubParams::default()).
C14_Presets ==
  LET d == Documented
  IN /\ Params_default = Params_graphic
     /\ Params_graphic = [l |-> d.one, c |-> d.d045, h |-> d.d015]
     /\ Params_textiles = [l |-> d.two, c |-> d.d048, h |-> d.d014]
     /\ KSubParams_default = [l |-> d.one, c |-> d.one, h |-> d.one]
     /\ KSubParams_yang2012 = [l |-> d.d65, c |-> d.one, h |-> d.four]
     /\ LC11 = << d.one, d.one >>
     /\ LC21 = << d.two, d.one >>
     /\ (formula = "cie00" /\ ksub = KSubParams_default) =>
          /\ result = Call(<< "cie00::diff", colour_1, colour_2 >>)
          /\ result = Call(<< "cie00::diff_with_params", colour_1, colour_2,
                              [l |-> d.one, c |-> d.one, h |-> d.one] >>)

\* cie00::diff of the colours of row 17 returns what diff_with_params
\* returns for the weights (1, 1, 1), and not what it returns for yang2012.
C14_Witness ==
  /\ formula = "cie00"
  /\ ksub = [l |-> Documented.one, c |-> Documented.one, h |-> Documented.one]
  /\ TableCall(17, FALSE)
  /\ result = Call(<< "cie00::diff", colour_1, colour_2 >>)
  /\ result # Call(<< "cie00::diff_with_params", colour_1, colour_2,
                      KSubParams_yang2012 >>)

\* C15: the diff functions are pure: with any number of threads calling
\* them in any interleaving, on the same or on different inputs, a call
\* that is running still has the arguments it was given, every call
\* returns exactly what the same call returns when it runs alone, and the
\* state of the single-threaded caller is never touched.
C15_PureUnderInterleaving ==
  /\ \A t \in Threads :
       /\ calls[t].pc = "called" => stack[t] = calls[t].args
       /\ calls[t].pc = "returned" => calls[t].result = Apply(calls[t].args)
  /\ (\E t \in Threads : calls[t].pc # "idle") =>
       (formula = "none" /\ result = NoValue)

\* Thread 1 has returned from cie00::diff while thread 2 is still inside
\* cmc::diff, and thread 1 holds the result of its own call.
C15_Witness ==
  /\ calls[1].pc = "returned"
  /\ calls[1].args.formula = "cie00"
  /\ calls[2].pc = "called"
  /\ calls[2].args.formula = "cmc"
  /\ IsFinite(calls[1].result)
  /\ calls[1].result = Apply(calls[1].args)
  /\ calls[1].result # Apply(calls[2].args)

\* x is an angle of [0, 2 pi): not negative and below TAU_32.
IsHue(x) == FGe(x, Zero(0)) /\ FLt(x, TAU_32)

\* A call get_delta_h_prime(c1, c2, h1, h2) with non-zero chromas and both
\* hue angles in [0, 2 pi).
DeltaHPrimeCall ==
  /\ formula = "get_delta_h_prime"
  /\ ~IsZero(ksub[1]) /\ ~IsZero(ksub[2])
  /\ IsHue(ksub[3]) /\ IsHue(ksub[4])

\* h2 - h1 if |h2 - h1| <= pi, h2 - h1 - 2 pi if h2 > h1, else h2 - h1 + 2 pi.
ShortestPath(h1, h2) ==
  LET d == FSub(h2, h1)
  IN IF FLe(FAbs(d), PI_32) THEN d
     ELSE IF FGt(h2, h1) THEN FSub(d, TAU_32)
     ELSE FAdd(d, TAU_32)

\* C16: with both chromas non-zero and h1, h2 in [0, 2 pi),
\* get_delta_h_prime returns h2 - h1 if |h2 - h1| <= pi, h2 - h1 - 2 pi if
\* h2 > h1 and h2 - h1 + 2 pi if h2 <= h1, and the value lies in the closed
\* interval [-pi, pi]: -pi is returned when h2 - h1 is -pi.
C16_ShortestPathClosed ==
  DeltaHPrimeCall =>
    /\ result = ShortestPath(ksub[3], ksub[4])
    /\ FLe(FNeg(PI_32), result) /\ FLe(result, PI_32)

\* From the hue pi to the hue 0 the difference returned is -pi.
C16_Witness ==
  /\ DeltaHPrimeCall
  /\ ksub[3] = PI_32
  /\ ksub[4] = Zero(0)
  /\ result = FNeg(PI_32)

\* C16 as stated: the value always lies in the half-open interval (-pi, pi].
C16_ShortestPathHalfOpen ==
  DeltaHPrimeCall =>
    /\ result = ShortestPath(ksub[3], ksub[4])
    /\ FLt(FNeg(PI_32), result) /\ FLe(result, PI_32)

\* The hue angle of the call get_t(a, b), atan2(b, a) taken into [0, 2 pi).
ReferenceHue ==
  LET h == FAtan2(ksub[2], ksub[1])
  IN IF FLt(h, Zero(0)) THEN FAdd(h, TAU_32) ELSE h

\* The hue lies in [164, 345) degrees: 164 degrees = 2.862340 rad and
\* 345 degrees = 6.021386 rad.
InBand == FLe(Dec(2862340, 6), ReferenceHue) /\ FLt(ReferenceHue, Dec(6021386, 6))

\* C17: get_t(a_ref, b_ref) returns 0.56 + |0.2 cos(h + 168 deg)| exactly
\* when the reference hue h = atan2(b_ref, a_ref), taken as an angle in
\* [0, 360), lies in [164, 345) degrees, and 0.36 + |0.4 cos(h + 35 deg)|
\* for every other hue.
C17_HueFactor ==
  formula = "get_t" =>
    LET h == FAtan2(ksub[2], ksub[1])
    IN result = IF InBand THEN FAdd(Dec(56, 2), ft(h, Dec(2, 1), cmc_D168))
                ELSE FAdd(Dec(36, 2), ft(h, Dec(4, 1), cmc_D35))

\* atan2(x, y) with a full turn added when it is negative.
Normalised(x, y) ==
  LET rad == FAtan2(x, y)
  IN IF FLt(rad, Zero(0)) THEN FAdd(rad, TAU_32) ELSE rad

\* C18: get_h_prime(b, a') returns atan2(b, a') with 2 pi added when it is
\* negative, and 0 when b and a' are both exactly zero; the result is never
\* negative and never above 2 pi.  It is 2 pi itself when the negative
\* angle is less than half a unit in the last place of 2 pi.
C18_HueInClosedTurn ==
  formula = "get_h_prime" =>
    /\ result = IF IsZero(ksub[1]) /\ IsZero(ksub[2]) THEN Zero(0)
                ELSE Normalised(ksub[1], ksub[2])
    /\ FGe(result, Zero(0)) /\ FLe(result, TAU_32)

\* b = -0.0001 and a' = 1000: the angle -1e-7 plus 2 pi rounds to 2 pi.
C18_Witness ==
  /\ formula = "get_h_prime"
  /\ ksub = << Dec(-1, 4), FromInt(1000) >>
  /\ FLt(FAtan2(ksub[1], ksub[2]), Zero(0))
  /\ result = TAU_32

\* C18 as stated: the result never reaches 2 pi.
C18_HueBelowTurn ==
  formula = "get_h_prime" =>
    /\ result = IF IsZero(ksub[1]) /\ IsZero(ksub[2]) THEN Zero(0)
                ELSE Normalised(ksub[1], ksub[2])
    /\ FGe(result, Zero(0)) /\ FLt(result, TAU_32)

\* The chromas C1 and C2 of the call's colours, from the uncorrected a*, b*.
ChromaOfCall == << hypot(colour_1.a, colour_1.b), hypot(colour_2.a, colour_2.b) >>

\* delta_h_prime and delta_upcase_h_prime as diff_with_params evaluates
\* them for the call's colours.
HueDifferenceOfCall ==
  LET c1 == ChromaOfCall[1]
      c2 == ChromaOfCall[2]
      tmp1 == FPowi(FMul(FAdd(c1, c2), Half), 7)
      tmp2 == FSub(Dec(15, 1),
                   FMul(FSqrt(FDiv(tmp1, FAdd(tmp1, TWENTY_FIVE_TO_SEVENTH))), Half))
      a_prime_1 == FMul(colour_1.a, tmp2)
      a_prime_2 == FMul(colour_2.a, tmp2)
      c_prime_1 == hypot(a_prime_1, colour_1.b)
      c_prime_2 == hypot(a_prime_2, colour_2.b)
      delta_h_prime ==
        get_delta_h_prime(c1, c2, get_h_prime(colour_1.b, a_prime_1),
                          get_h_prime(colour_2.b, a_prime_2))
  IN << delta_h_prime,
        FMul(FMul(Dec(2, 0), FSqrt(FMul(c_prime_1, c_prime_2))),
             FSin(FMul(Half, delta_h_prime))) >>

\* One of the two chromas of a CIEDE2000 call is exactly zero.
ZeroChromaCall ==
  formula = "cie00" /\ (IsZero(ChromaOfCall[1]) \/ IsZero(ChromaOfCall[2]))

\* C19: when the chroma C1 or C2 of either input is exactly zero, the hue
\* difference delta-h' of CIEDE2000 is 0 whatever the two hue angles are,
\* and, for coordinates of magnitude up to 100000, so is the hue term
\* delta-H'.
C19_ZeroChromaNoHue ==
  ZeroChromaCall =>
    /\ IsZero(HueDifferenceOfCall[1])
    /\ (InRange(to_lab(colour_1), 100000) /\ InRange(to_lab(colour_2), 100000))
         => IsZero(HueDifferenceOfCall[2])

\* The grey (50, 0, 0) against (50, -1, 2), whose hue angle is not zero.
C19_Witness ==
  /\ ZeroChromaCall
  /\ TableCall(8, FALSE)
  /\ IsZero(ChromaOfCall[1]) /\ ~IsZero(ChromaOfCall[2])
  /\ FGt(get_h_prime(colour_2.b, colour_2.a), One)
  /\ IsZero(HueDifferenceOfCall[1])
  /\ IsZero(HueDifferenceOfCall[2])

\* C19 as stated: the hue term is 0 for every pair with a zero chroma.
C19_ZeroChromaNoHueAlways ==
  ZeroChromaCall =>
    /\ IsZero(HueDifferenceOfCall[1])
    /\ IsZero(HueDifferenceOfCall[2])

\* A call of the mean hue with the hue angles ksub[1] and ksub[2].
MeanHueCall == formula = "upcase_h_prime_bar"

\* The two hue angles of the call are more than PI_32 apart.
HuesFarApart == FGt(FAbs(FSub(ksub[1], ksub[2])), PI_32)

\* The smallest f32 above 5 pi / 2: an f32 is below 5 pi / 2 exactly when
\* it is below this one.
FiveHalvesPiUp == Fin(0, 16470994, -21)

\* C20: the mean hue is (h1' + h2') / 2 when |h1' - h2'| <= pi and
\* (h1' + h2') / 2 + pi when |h1' - h2'| > pi, the operations being those
\* of f32 and pi the constant PI_32; it is the same for both argument
\* orders, and for h1', h2' in [0, 2 pi) it lies in [0, 5 pi / 2).
C20_MeanHue ==
  MeanHueCall =>
    LET half_sum == FMul(FAdd(ksub[1], ksub[2]), Half)
    IN /\ FLe(FAbs(FSub(ksub[1], ksub[2])), PI_32) => result = half_sum
       /\ HuesFarApart => result = FAdd(half_sum, PI_32)
       /\ result = get_upcase_h_prime_bar(ksub[2], ksub[1])
       /\ (IsHue(ksub[1]) /\ IsHue(ksub[2]))
            => FGe(result, Zero(0)) /\ FLt(result, FiveHalvesPiUp)

\* Two hue angles of [0, 2 pi) more than pi apart, given smaller first,
\* whose mean hue is above 2 pi: it is not reduced modulo 2 pi.
C20_Witness ==
  /\ MeanHueCall
  /\ IsHue(ksub[1]) /\ IsHue(ksub[2])
  /\ FLt(ksub[1], ksub[2])
  /\ HuesFarApart
  /\ FGt(result, TAU_32)

\* A cmc::diff call whose colours differ in lightness at most.
LightnessOnlyCall ==
  /\ formula = "cmc"
  /\ to_lab(colour_1)[2] = to_lab(colour_2)[2]
  /\ to_lab(colour_1)[3] = to_lab(colour_2)[3]

\* S_L as documented, of a lightness.
DocumentedSL(lightness) ==
  IF FLt(lightness, FromInt(16))
    THEN FDiv(FromInt(1639), FromInt(3206))
    ELSE FDiv(FMul(Dec(40975, 6), lightness),
              FAdd(One, FMul(Dec(1765, 5), lightness)))

\* C21: the CMC lightness scale S_L is the constant 1639/3206 when the
\* reference lightness is below 16 (negative values included) and
\* 0.040975 L / (1 + 0.01765 L) from 16 on, and it is taken from the
\* reference's lightness, never from the other colour's: between two colours
\* of the same a*, b* the difference is the lightness term
\* (L_ref - L) / (l * S_L(L_ref)) alone.
C21_LightnessScale ==
  LightnessOnlyCall =>
    LET reference == to_lab(colour_1)
        colour == to_lab(colour_2)
        l == FDiv(FSub(reference[1], colour[1]),
                  FMul(ksub[1], DocumentedSL(reference[1])))
    IN result = norm3(l, Zero(0), Zero(0))

\* A reference of negative lightness against a colour of lightness 50: the
\* scale is the constant, which differs from the scale of lightness 50.
C21_Witness ==
  /\ LightnessOnlyCall
  /\ to_lab(colour_1)[1] = FromInt(-5)
  /\ to_lab(colour_2)[1] = FromInt(50)
  /\ DocumentedSL(to_lab(colour_1)[1]) # DocumentedSL(to_lab(colour_2)[1])
  /\ FGt(result, Zero(0))

\* x to the power y for the call's grey level, as powf returned it.
PowfOfCall(y) == powf(ys_of(ksub[1]), y, ksub[2])

\* C22: lab_from_grey selects its formula by two breakpoints:
\* L* = grey * 243890/889542 for grey <= 10,
\* L* = (24389/27) * ((grey + 0.055*255) / (1.055*255))^2.4 for grey 11..23,
\* L* = 116 * ((grey + 0.055*255) / (1.055*255))^0.8 - 16 for grey >= 24;
\* for every grey in 0..255 the returned a* and b* are exactly 0.
C22_GreyBreakpoints ==
  formula = "lab_from_grey" =>
    LET grey == ksub[1]
    IN /\ grey <= 10 =>
            result[1] = FMul(FromInt(grey), FDiv(FromInt(243890), FromInt(889542)))
       /\ (11 <= grey /\ grey <= 23) =>
            result[1] = FMul(FDiv(FromInt(24389), FromInt(27)), PowfOfCall(Dec(24, 1)))
       /\ grey >= 24 =>
            result[1] = FSub(FMul(FromInt(116), PowfOfCall(Dec(8, 1))), FromInt(16))
       /\ result[2] = Zero(0)
       /\ result[3] = Zero(0)

\* Grey 24 with powf one unit in the last place high: the third formula,
\* whose value the second formula does not give.
C22_Witness ==
  /\ formula = "lab_from_grey"
  /\ ksub = << 24, 1 >>
  /\ result[1] = FSub(FMul(FromInt(116), PowfOfCall(Dec(8, 1))), FromInt(16))
  /\ result[1] # FMul(KAPPA, PowfOfCall(Dec(24, 1)))
  /\ FGt(result[1], FromInt(8)) /\ FLt(result[1], FromInt(9))

\* The pixel of the call, behind the reference if it was handed over by
\* reference.
PixelOfCall == IF colour_1.kind = "ref" THEN colour_1.to ELSE colour_1

\* C23: for the same r, g, b channel values, to_lab on RGB<u8>, on
\* alt::BGR<u8> (reversed byte order) and on RGBA<u8> with any alpha value
\* passes the channels to the sRGB-to-Lab conversion as [r, g, b] and
\* returns its (L, a, b) triple; the alpha channel does not influence the
\* result.
C23_ChannelOrder ==
  formula = "to_lab" =>
    LET lab == from_rgb(<< PixelOfCall.r, PixelOfCall.g, PixelOfCall.b >>)
    IN result = << lab.l, lab.a, lab.b >>

\* A BGR<u8> pixel whose red and blue differ: its bytes in memory are not
\* in the order r, g, b, and the conversion was still given [r, g, b].
C23_Witness ==
  /\ formula = "to_lab"
  /\ colour_1 = BGR(234, 76, 0)
  /\ as_ref(colour_1) = << 0, 76, 234 >>
  /\ result = to_lab_pixel("lib", RGBA(234, 76, 0, 128))
  /\ result = to_lab_pixel("lib", RGB(234, 76, 0))
  /\ result # to_lab_pixel("lib", RGB(0, 76, 234))

\* The arguments after the program's name on the call's command line.
ArgumentsOfCall == IF ksub = << >> THEN << >> ELSE Tail(ksub)

\* arg is '#' followed by six hexadecimal digits, seven bytes in all.
WellFormed(arg) ==
  /\ arg.unicode
  /\ Len(arg.chars) = 7
  /\ arg.chars[1] = "#"
  /\ \A i \in 2..7 :
       arg.chars[i] \in {"0", "1", "2", "3", "4", "5", "6", "7", "8", "9",
                         "a", "b", "c", "d", "e", "f", "A", "B", "C", "D", "E", "F"}

\* A parse_args call all of whose arguments are colours in #RRGGBB format.
ColoursOnlyCall ==
  /\ formula = "parse_args"
  /\ \A i \in 1..Len(ArgumentsOfCall) : WellFormed(ArgumentsOfCall[i])

\* C24: parse_args succeeds, returning the two parsed colours in order,
\* only when exactly two colour arguments follow the program name; for any
\* other number of arguments (zero, one, or three and more) it returns the
\* error "Expected two arguments" and no colours.
C24_ExactlyTwoArguments ==
  ColoursOnlyCall =>
    /\ result.ok <=> Len(ArgumentsOfCall) = 2
    /\ result.ok =>
         result.value = << parse(ArgumentsOfCall[1]).value,
                           parse(ArgumentsOfCall[2]).value >>
    /\ ~result.ok => result.error[2] = "Expected two arguments"

\* The positions in args of the arguments that are not well formed.
IllFormed(args) == {i \in 1..Len(args) : ~WellFormed(args[i])}

\* The least position of IllFormed(args).
FirstIllFormed(args) ==
  CHOOSE i \in IllFormed(args) : \A j \in IllFormed(args) : i <= j

\* parse_args returned the error of the argument at position i of args,
\* having handed parse the arguments up to that one and no later one.
ReportsArgument(args, i) ==
  /\ ~result.ok
  /\ result.error = << ksub[1], parse(args[i]).error >>
  /\ result.error[2][1] = args[i]
  /\ result.examined = [j \in 1..i |-> j + 1]

\* parse gives Ok exactly for the well-formed arguments, with a value in
\* 0..=0xFFFFFF.
ParseAcceptsWellFormed ==
  formula = "parse" =>
    /\ result.ok <=> WellFormed(ksub)
    /\ result.ok => result.value \in 0..16777215

\* The first two arguments of the call: the ones parse_args reads.
ColourArgumentsOfCall ==
  SubSeq(ArgumentsOfCall, 1, IF Len(ArgumentsOfCall) < 2 THEN Len(ArgumentsOfCall) ELSE 2)

RotationOfCall ==
  LET c1 == ChromaOfCall[1]
      c2 == ChromaOfCall[2]
      tmp1 == FPowi(FMul(FAdd(c1, c2), Half), 7)
      tmp2 == FSub(Dec(15, 1),
                   FMul(FSqrt(FDiv(tmp1, FAdd(tmp1, TWENTY_FIVE_TO_SEVENTH))), Half))
      a_prime_1 == FMul(colour_1.a, tmp2)
      a_prime_2 == FMul(colour_2.a, tmp2)
      c_prime_bar == FMul(FAdd(hypot(a_prime_1, colour_1.b),
                               hypot(a_prime_2, colour_2.b)), Half)
  IN get_r_sub_t(c_prime_bar,
                 get_upcase_h_prime_bar(get_h_prime(colour_1.b, a_prime_1),
                                        get_h_prime(colour_2.b, a_prime_2)))

\* A CIEDE2000 call with positive weights.
PositiveWeightsCall ==
  /\ formula = "cie00"
  /\ FGt(ksub.l, Zero(0)) /\ FGt(ksub.c, Zero(0)) /\ FGt(ksub.h, Zero(0))

\* The result is a number and not negative.
NonNegativeResult == ~IsNaN(result) /\ FGe(result, Zero(0))

C27_ScalesPositive ==
  /\ formula = "cmc_s_l" => FGt(result, Zero(0))
  /\ (/\ formula = "cmc_scales"
      /\ FLe(FAbs(ksub[1]), FromInt(100000))
      /\ FLe(FAbs(ksub[2]), FromInt(100000))) =>
       /\ FGe(result.t, Dec(36, 2)) /\ FLe(result.t, Dec(96, 2))
       /\ FGe(result.f, Zero(0)) /\ FLe(result.f, One)
       /\ FLe(result.c_1, FromInt(300)) => FLt(result.f, One)
       /\ FGe(result.s_c, Dec(638, 3))
       /\ FGe(result.s_h, FMul(Dec(36, 2), result.s_c))
       /\ FGt(result.s_h, Zero(0))

\* A reference of chroma 600: F is exactly 1, and the scale factors are
\* positive all the same.
C27_Witness ==
  /\ formula = "cmc_scales"
  /\ result.c_1 = FromInt(600)
  /\ result.f = One
  /\ FGt(result.s_h, Zero(0))
  /\ FGt(result.s_c, One)

\* C27 as stated: the CMC scale factors are strictly positive for every
\* reference colour: T lies in [0.36, 0.96], F lies in [0, 1),
\* S_C >= 0.638, S_H >= 0.36 * S_C > 0, and S_L > 0 for every L_ref >= 0.
C27_ScalesPositiveFBelowOne ==
  /\ formula = "cmc_s_l" => FGt(result, Zero(0))
  /\ formula = "cmc_scales" =>
       /\ FGe(result.t, Dec(36, 2)) /\ FLe(result.t, Dec(96, 2))
       /\ FGe(result.f, Zero(0)) /\ FLt(result.f, One)
       /\ FGe(result.s_c, Dec(638, 3))
       /\ FGe(result.s_h, FMul(Dec(36, 2), result.s_c))
       /\ FGt(result.s_h, Zero(0))

\* cie76::diff of the call's colours.
Cie76OfCall == Call(<< "cie76::diff", colour_1, colour_2 >>)

\* x is within one part in 2^22 of y, a rounding error or two of f32.
WithinRounding(x, y) == FLe(FAbs(FSub(x, y)), FMul(FAbs(y), FScalb(One, -22)))

\* A cie94::diff call with an achromatic reference and k_l = 1.
GreyReferenceCall ==
  /\ formula = "cie94"
  /\ IsZero(to_lab(colour_1)[2]) /\ IsZero(to_lab(colour_1)[3])
  /\ ksub.l = One

\* C28: when the reference is achromatic (a_ref = b_ref = 0) and k_l = 1,
\* cie94::diff(reference, colour, k) is, for every k_c and k_h, NaN when
\* the quantity under the hue root evaluates negative, and otherwise
\* cie76::diff(reference, colour) to within rounding.
C28_GreyReferenceIsEuclidean ==
  GreyReferenceCall =>
    IF FLt(HueRadicand, Zero(0)) THEN IsNaN(result)
    ELSE WithinRounding(result, Cie76OfCall)

\* (50, 0, 0) against (50, -1, 2): both differences are sqrt(5) = 2.2361.
C28_Witness ==
  /\ GreyReferenceCall
  /\ TableCall(8, FALSE)
  /\ result = Cie76OfCall
  /\ Reproduces(22361)

\* C28 as stated: the two differences are equal for every colour.
C28_GreyReferenceEqual == GreyReferenceCall => result = Cie76OfCall

\* A cie94::diff call with k_l >= 1, k_c >= 0 and k_h >= 0.
ShrinkingWeightsCall ==
  /\ formula = "cie94"
  /\ FGe(ksub.l, One) /\ FGe(ksub.c, Zero(0)) /\ FGe(ksub.h, Zero(0))

\* C29: for all colours and all weights with k_l >= 1, k_c >= 0 and
\* k_h >= 0, cie94::diff(reference, colour, k) does not exceed
\* cie76::diff(reference, colour) by more than rounding (one part in 2^22).
C29_Cie94AtMostCie76 ==
  ShrinkingWeightsCall =>
    ~FGt(result, FAdd(Cie76OfCall, FMul(Cie76OfCall, FScalb(One, -22))))

\* A chromatic reference: the CIE94 difference of row 2 of the table is
\* below half the Euclidean one.
C29_Witness ==
  /\ ShrinkingWeightsCall
  /\ TableCall(2, FALSE)
  /\ FGt(result, Zero(0))
  /\ FLt(result, FMul(Half, Cie76OfCall))

\* C29 as stated: cie94::diff never exceeds cie76::diff.
C29_Cie94NeverExceeds == ShrinkingWeightsCall => ~FGt(result, Cie76OfCall)

\* The lightness scale of every reference lightness of ScaleLightnesses up
\* to the call's is at most the call's.
NoSmallerBelow ==
  \A lower \in ScaleLightnesses :
    FLe(lower, ksub) => FLe(Call(<< "cmc_s_l", lower >>), result)

\* The lightness scale of every reference lightness of ScaleLightnesses up
\* to the call's exceeds the call's by rounding at most.
NoSmallerBelowButRounding ==
  \A lower \in ScaleLightnesses :
    FLe(lower, ksub) =>
      FLe(Call(<< "cmc_s_l", lower >>), FAdd(result, FMul(result, FScalb(One, -22))))

====
